---- MODULE Spec2Model ----
(***************************************************************************)
(* Crawl-and-extract pipeline of the website ingestion service:            *)
(*   - WebScraper / BrowserScraper  (lib/services/scraper.ts,              *)
(*     lib/services/browserScraper.ts): bounded breadth-first crawl;       *)
(*   - DeduplicationService (lib/services/deduplication.ts);               *)
(*   - analyzeWebsiteTask.run (jobs/analyze-website.ts): crawl, then       *)
(*     deduplicate and embed each accepted page;                           *)
(*   - RateLimiter / withRateLimit (lib/services/rateLimiter.ts);          *)
(*   - EmbeddingService (lib/services/embeddings.ts).                      *)
(***************************************************************************)
EXTENDS Integers, Sequences, FiniteSets, TLC

VARIABLES
  \* ---- WebScraper / BrowserScraper fields and scrapeWebsite locals
  scraper,            \* "axios" (WebScraper) or "puppeteer" (BrowserScraper)
  useBrowser,         \* payload.useBrowser
  baseUrl,            \* this.baseUrl
  maxPages,           \* this.maxPages
  visited,            \* this.visited : Set<string>
  queue,              \* scrapeWebsite: queue  ([items, head] of class Queue)
  inQueue,            \* scrapeWebsite: inQueue : Set<string>
  pages,              \* scrapeWebsite: pages : ScrapedPage[]
  skippedLowQuality,  \* scrapeWebsite: skippedLowQuality
  pc,                 \* position of the task
  cur,                \* URL whose fetch is in flight (scrapePage's url)
  \* ---- observation of the crawl (history)
  fetchLog,           \* URLs handed to the transport, in order
  enqLog,             \* URLs enqueued, in order
  deqLog,             \* URLs dequeued, in order
  lastOutcome,        \* what the last scrapePage call returned
  foundLinks,         \* hrefs (as URL.href) read on the accepted pages
  rejectedLinks,      \* page.links of the pages below the quality threshold
  \* ---- analyzeWebsiteTask.run locals and its DeduplicationService
  fingerprints,       \* DeduplicationService.fingerprints : Map<url, fingerprint>
  duplicateCount,     \* DeduplicationService.duplicateCount
  pageIndex,          \* the for loop's i (1-based)
  processedPages,     \* processedPages
  skippedDuplicates,  \* skippedDuplicates
  errors,             \* errors : page URLs whose storeEmbeddings threw
  storeLog,           \* indices of the pages handed to storeEmbeddings (history)
  \* ---- openAIRateLimiter (the process-wide RateLimiter)
  maxRequests,        \* this.maxRequests
  requests,           \* this.requests : Set<string>
  requestTimestamps,  \* this.requestTimestamps, as [age, id]: age = now - timestamp
  \* ---- one storeEmbeddings call and its generateEmbedding calls
  chunkCount,         \* valuableChunks.length
  batchFrom,          \* generateEmbeddingsBatch: first chunk of the current batch
  calls,              \* per chunk: the generateEmbedding call made for it
  insertFrom,         \* storeEmbeddings: first record of the next insert batch
  persisted,          \* rows of website_embeddings inserted by this call
  chunksCreated,      \* storeEmbeddings: chunks.length
  storeResult,        \* what storeEmbeddings returned
  \* ---- a DeduplicationService used on its own (history of its calls)
  dedupHist,
  \* ---- the chunker used on its own
  chunkerIn,          \* [text, chunkSize, chunkOverlap]
  chunkerOut,         \* the chunks returned
  hardSplits,         \* chunkText: per sentence split by character offsets,
                      \*   its length and the values i took in the loop
  \* ---- lib/config.ts at module load
  env,                \* process.env, the variables read by validateEnv
  config,             \* config.ingestion, once loaded
  \* ---- the ingestion entry points and the website_embeddings table
  db,                 \* rows of website_embeddings
  ingest,             \* the run in progress: its locals, result and history
  \* ---- a function of the parser or of the validation utilities, called once
  fnIn,               \* the function and its arguments
  fnOut,              \* what it returned
  \* ---- an APIRateLimiter of lib/middleware/rateLimiter.ts
  limits,             \* this.limits, as identifier -> [count, age]:
                      \*   age = now - (resetTime - windowMs), in ticks
  apiLog,             \* per identifier: its requests since the first one of
                      \*   its window, and what was done with them (history)
  \* ---- one job of the job API: its job_progress row, its task, a client
  job,                \* the row of job_progress with this job_id
  jobRun,             \* analyzeWebsiteTask.run locals: pages.length and i
  cancel,             \* the POST /api/jobs/cancel request being served
  \* ---- two ingest-website runs of one website at the same time
  runs                \* per run: its position and locals, the rows it inserted

crawlVars == << scraper, baseUrl, maxPages, visited, queue, inQueue, pages,
                skippedLowQuality, cur, fetchLog, enqLog, deqLog, lastOutcome,
                foundLinks >>

taskVars == << fingerprints, duplicateCount, pageIndex, processedPages,
               skippedDuplicates, errors, storeLog >>

embedVars == << maxRequests, requests, requestTimestamps, chunkCount,
                batchFrom, calls, insertFrom, persisted >>

storeVars == << chunksCreated, storeResult >>

chunkVars == << chunkerIn, chunkerOut, hardSplits, env, config >>

ingestVars == << db, ingest >>

fnVars == << fnIn, fnOut >>

apiVars == << limits, apiLog >>

\* the state outside one crawl-and-embed task
jobVars == << job, jobRun, cancel >>

overlapVars == << runs >>

moreVars == << jobVars, overlapVars >>

aloneVars == << dedupHist, chunkVars, ingestVars, fnVars, apiVars, moreVars >>

unitVars == << aloneVars, rejectedLinks >>

vars == << crawlVars, taskVars, embedVars, storeVars, unitVars, useBrowser,
           pc >>

(***************************************************************************)
(* Bounds of the model.                                                    *)
(***************************************************************************)
MaxPagesBound == 3      \* maxPages is drawn from 1..MaxPagesBound
MaxLinks == 2           \* number of href attributes on one fetched page
MaxQueueUrls == 103     \* URLs discovered in the long crawl of QueueSpec

(***************************************************************************)
(* Program constants.                                                      *)
(***************************************************************************)
minQualityScore == 20   \* config.ingestion.minQualityScore (default)
CompactAfter == 100     \* Queue.dequeue: if (this.head > 100)
defaultMaxRequests == 50  \* config.rateLimit.maxRequestsPerMinute (default)

(***************************************************************************)
(* The state in which no storeEmbeddings call has been made: the limiter   *)
(* as constructed, no generateEmbedding call.                              *)
(***************************************************************************)
MaxChunks == 2          \* chunks of the page handed to storeEmbeddings
Chunks == 1..MaxChunks

NoError == [status |-> 0, code |-> ""]

\* a generateEmbedding call: its position, whether its text passes the two
\* checks of generateEmbedding, its retryCount argument, the ticks
\* left on the timer it sleeps on, the number of times it has called the
\* embed capability, and the error its catch block is handling
idleCall == [pc |-> "idle", textOk |-> TRUE, retryCount |-> 0, wait |-> 0,
             attempts |-> 0, lastError |-> NoError]

NoResult == [status |-> "none", chunksCreated |-> 0, chunksSaved |-> 0,
             chunksSkipped |-> 0]

EmbedIdle(mr) ==
  /\ maxRequests = mr
  /\ requests = {}
  /\ requestTimestamps = << >>
  /\ chunkCount = 0
  /\ batchFrom = 1
  /\ calls = [c \in Chunks |-> idleCall]
  /\ insertFrom = 1
  /\ persisted = {}
  /\ chunksCreated = 0
  /\ storeResult = NoResult

(***************************************************************************)
(* URLs.  A URL string is modelled by its components; the scheme is https  *)
(* throughout.  path = "" is the string without a trailing slash, which    *)
(* only normalizeUrl produces; WHATWG serialisation (URL.href) always      *)
(* gives a path of at least "/".                                           *)
(***************************************************************************)
Url(h, p, f) == [host |-> h, path |-> p, frag |-> f]

BaseHost == "example.com"
OtherHost == "sub.example.com"

\* new URL(url, base).href
Href(u) == [u EXCEPT !.path = IF u.path = "" THEN "/" ELSE u.path]

\* `${urlObj.protocol}//${urlObj.host}`
normalizeUrl(u) == Url(u.host, "", "")

\* new URL(this.baseUrl).hostname
baseHostname == baseUrl.host

\* mutant: the hostname comparison is dropped
isValidUrlAnyHost(u) == TRUE

isValidUrl(u) == u.host = baseHostname

\* absoluteUrl.split("#")[0]
splitHash(u) == [u EXCEPT !.frag = ""]

\* URLs the caller may start the crawl from
StartUrls == { Url(BaseHost, "/", ""), Url(BaseHost, "/a", "#s") }

\* href values that may occur in a fetched document
RawLinks == { Url(BaseHost, "", ""), Url(BaseHost, "", "#s"),
              Url(BaseHost, "/a", ""), Url(OtherHost, "/a", "") }

RawLinkSeqs == UNION { [1..n -> RawLinks] : n \in 0..MaxLinks }

InSeq(x, s) == \E i \in 1..Len(s) : s[i] = x

SeqToSet(s) == { s[k] : k \in 1..Len(s) }

NoDuplicates(s) == \A i, j \in 1..Len(s) : s[i] = s[j] => i = j

(***************************************************************************)
(* Strings.  A string is a sequence of runs [c, n]: the character c        *)
(* repeated n >= 1 times, adjacent runs holding different characters.      *)
(***************************************************************************)
Run(c, n) == [c |-> c, n |-> n]

RECURSIVE StrLen(_)
StrLen(s) == IF s = << >> THEN 0 ELSE Head(s).n + StrLen(Tail(s))

isSpace(c) == c \in { " ", "\n" }

lowerChar(c) == IF c = "A" THEN "a" ELSE IF c = "B" THEN "b" ELSE c

\* rejoin adjacent runs of one character
RECURSIVE joinRuns(_)
joinRuns(s) ==
  IF Len(s) <= 1 THEN s
  ELSE LET r == joinRuns(Tail(s)) IN
       IF Head(s).c = Head(r).c
         THEN << Run(Head(s).c, Head(s).n + Head(r).n) >> \o Tail(r)
         ELSE << Head(s) >> \o r

\* String.prototype.toLowerCase
RECURSIVE lowerRuns(_)
lowerRuns(s) ==
  IF s = << >> THEN << >>
  ELSE << Run(lowerChar(Head(s).c), Head(s).n) >> \o lowerRuns(Tail(s))

toLowerCase(s) == joinRuns(lowerRuns(s))

\* .replace(/\s+/g, " "): a maximal match of \s+ spans adjacent whitespace
\* runs, and becomes one " "
RECURSIVE collapseWhitespace(_)
collapseWhitespace(s) ==
  IF s = << >> THEN << >>
  ELSE IF ~isSpace(Head(s).c) THEN << Head(s) >> \o collapseWhitespace(Tail(s))
  ELSE IF Len(s) >= 2 /\ isSpace(s[2].c) THEN collapseWhitespace(Tail(s))
  ELSE << Run(" ", 1) >> \o collapseWhitespace(Tail(s))

\* String.prototype.trim
trim(s) ==
  LET a == IF s # << >> /\ isSpace(Head(s).c) THEN Tail(s) ELSE s
  IN  IF a # << >> /\ isSpace(a[Len(a)].c) THEN SubSeq(a, 1, Len(a) - 1) ELSE a

(***************************************************************************)
(* DeduplicationService                                                    *)
(***************************************************************************)
lengthThreshold == 100   \* Math.abs(fingerprint.length - existing.length) < 100
similarityThreshold == 95 \* threshold = 0.95, in hundredths

createHashCaseSensitive(content) == trim(collapseWhitespace(content))

\* sha256 of the normalised text; the digest is taken to be collision-free,
\* so the normalised text stands for it
createHash(content) == trim(collapseWhitespace(toLowerCase(content)))

createFingerprint(url, title, content) ==
  [url |-> url, contentHash |-> createHash(content),
   titleHash |-> createHash(title), length |-> StrLen(content)]

Min2(a, b) == IF a <= b THEN a ELSE b
Max2(a, b) == IF a >= b THEN a ELSE b
Abs(x) == IF x < 0 THEN -x ELSE x

calculateSimilarityByLength(hash1, hash2, length1, length2) ==
  IF hash1 = hash2 THEN 100
  ELSE (100 * Min2(length1, length2)) \div Max2(length1, length2)

\* similarity in hundredths
calculateSimilarity(hash1, hash2, length1, length2) ==
  IF hash1 = hash2 THEN 100
  ELSE IF 10 * Min2(length1, length2) < 8 * Max2(length1, length2) THEN 0
  ELSE 0

matchesContentOnly(fp, existing) ==
  calculateSimilarity(fp.contentHash, existing.contentHash,
                      fp.length, existing.length) >= similarityThreshold

\* the fingerprint stored under another URL that makes (url, title, content)
\* a duplicate
matches(fp, existing) ==
  \/ calculateSimilarity(fp.contentHash, existing.contentHash,
                         fp.length, existing.length) >= similarityThreshold
  \/ /\ fp.titleHash = existing.titleHash
     /\ Abs(fp.length - existing.length) < lengthThreshold

\* mutant: the content-hash rule is dropped, only the title rule is left
isDuplicateTitleOnly(fps, url, title, content) ==
  \E existingUrl \in DOMAIN fps :
    /\ existingUrl # url
    /\ createHash(title) = fps[existingUrl].titleHash
    /\ Abs(StrLen(content) - fps[existingUrl].length) < lengthThreshold

isDuplicateNoSelfSkip(fps, url, title, content) ==
  \E existingUrl \in DOMAIN fps :
    matches(createFingerprint(url, title, content), fps[existingUrl])

\* the value isDuplicate returns
isDuplicate(fps, url, title, content) ==
  \E existingUrl \in DOMAIN fps :
    /\ existingUrl # url
    /\ matches(createFingerprint(url, title, content), fps[existingUrl])

\* this.fingerprints.set(url, fingerprint)
storeFingerprint(fps, url, title, content) ==
  (url :> createFingerprint(url, title, content)) @@ fps

NoFingerprints == [u \in {} |-> 0]

countEveryCall(count, duplicate) == count + 1

\* this.duplicateCount++ on the two paths that return true
countDuplicates(count, duplicate) == IF duplicate THEN count + 1 ELSE count

\* Math.round of a / b, for a >= 0 and b > 0
roundDiv(a, b) == (2 * a + b) \div (2 * b)

getStats(fps, count) ==
  LET size == Cardinality(DOMAIN fps) IN
  [uniquePages |-> size,
   duplicatesFound |-> count,
   duplicateRate |-> IF size > 0 THEN roundDiv(count * 100, size + count)
                     ELSE 0]

\* what is remembered of the calls made to a DeduplicationService used on
\* its own: the last operation, with the arguments and the value returned
\* when it is an isDuplicate call, whether it followed a reset(), whether
\* its title and content were those stored for its URL; the number of
\* isDuplicate calls; since
\* construction or the last reset(): the number of calls that returned
\* true, the URLs for which a call returned false, the first fingerprint
\* stored for every URL, and the (title, content) from which the
\* fingerprint now stored for a URL was made; the (title, content) pairs
\* that were stored when reset() was last called
NoCall ==
  [last |-> "none", url |-> << >>, title |-> << >>, content |-> << >>,
   returned |-> FALSE, afterReset |-> FALSE, resubmitted |-> FALSE,
   calls |-> 0, trueCalls |-> 0,
   falseUrls |-> {}, firstSeen |-> NoFingerprints, source |-> NoFingerprints,
   seenBeforeReset |-> {}]

\* no call of the DeduplicationService on its own, none of the chunker
\* an environment variable: unset, or a string (the sequence of its characters)
Undefined == [set |-> FALSE, value |-> << >>]

Str(s) == [set |-> TRUE, value |-> s]

NoEnv ==
  [OPENAI_API_KEY |-> Undefined, CHUNK_SIZE |-> Undefined,
   CHUNK_OVERLAP |-> Undefined]

NoConfig == [loaded |-> FALSE, chunkSize |-> 0, chunkOverlap |-> 0]

ChunkerIdle ==
  /\ chunkerIn = << >>
  /\ chunkerOut = << >>
  /\ hardSplits = << >>
  /\ env = NoEnv
  /\ config = NoConfig

NoIngestResult ==
  [status |-> "none", success |-> FALSE, pagesScraped |-> 0,
   pagesProcessed |-> 0, embeddingsCreated |-> 0]

NoIngest ==
  [run |-> 0, entry |-> "none", useBrowser |-> FALSE, pages |-> << >>,
   scraperUsed |-> "none", browserCrawls |-> 0, deleted |-> "none", i |-> 1,
   processedPages |-> 0, totalEmbeddings |-> 0, skippedDuplicates |-> 0,
   errors |-> << >>, outcomes |-> << >>, inserted |-> {},
   result |-> NoIngestResult, previous |-> << >>, crawls |-> << >>]

IngestIdle ==
  /\ db = {}
  /\ ingest = NoIngest

FnIdle ==
  /\ fnIn = << >>
  /\ fnOut = << >>

ApiIdle ==
  /\ limits = << >>
  /\ apiLog = << >>

\* no row in job_progress
NoJob ==
  [exists |-> FALSE, status |-> "none", progress |-> 0, message |-> "none",
   error |-> "none"]

\* no cancel request received yet
NoCancel == [pc |-> "idle", seen |-> "none", response |-> "none", served |-> 0]

JobIdle ==
  /\ job = NoJob
  /\ jobRun = [pages |-> 0, i |-> 0]
  /\ cancel = NoCancel

\* a run that has not been triggered
NoRun == [pc |-> "none", pages |-> 0, i |-> 0, inserted |-> {}]

OverlapIdle == runs = << NoRun, NoRun >>

MoreIdle == JobIdle /\ OverlapIdle

\* no call of the DeduplicationService on its own, none of the chunker,
\* no ingestion run, no call of a utility, no API request
UnitIdle ==
  /\ rejectedLinks = {}
  /\ MoreIdle
  /\ dedupHist = NoCall
  /\ ChunkerIdle
  /\ IngestIdle
  /\ FnIdle
  /\ ApiIdle

(***************************************************************************)
(* class Queue<T>                                                          *)
(***************************************************************************)
NewQueue == [items |-> << >>, head |-> 0]

enqueue(q, item) == [q EXCEPT !.items = Append(@, item)]

isEmpty(q) == q.head >= Len(q.items)

\* the item dequeue() returns
dequeueItem(q) == q.items[q.head + 1]

\* mutant: the compaction slices one element too early, slice(this.head - 1)
dequeueSliceOffByOne(q) ==
  LET h == q.head + 1 IN
  IF h > CompactAfter
    THEN [items |-> SubSeq(q.items, h, Len(q.items)), head |-> 0]
    ELSE [items |-> q.items, head |-> h]

\* the queue dequeue() leaves behind
dequeue(q) ==
  LET h == q.head + 1 IN
  IF h > CompactAfter
    THEN [items |-> SubSeq(q.items, h + 1, Len(q.items)), head |-> 0]
    ELSE [items |-> q.items, head |-> h]

\* BrowserScraper keeps a plain array: queue.shift()
shift(q) == [items |-> Tail(q.items), head |-> 0]

\* the URLs still waiting in the queue, oldest first
Pending(q) == SubSeq(q.items, q.head + 1, Len(q.items))

(***************************************************************************)
(* WebScraper.extractLinks                                                 *)
(***************************************************************************)
RECURSIVE extractLinksFrom(_, _, _)
extractLinksFrom(raw, links, vis) ==
  IF raw = << >> THEN links
  ELSE
    LET absoluteUrl == Href(Head(raw))
        urlWithoutHash == splitHash(absoluteUrl)
        baseWithoutHash == splitHash(baseUrl)
    IN IF urlWithoutHash = baseWithoutHash
         THEN extractLinksFrom(Tail(raw), links, vis)
         ELSE IF isValidUrl(absoluteUrl) /\ absoluteUrl \notin vis
                 /\ ~InSeq(absoluteUrl, links)
           THEN extractLinksFrom(Tail(raw), Append(links, absoluteUrl), vis)
           ELSE extractLinksFrom(Tail(raw), links, vis)

extractLinks(raw, vis) == extractLinksFrom(raw, << >>, vis)

(***************************************************************************)
(* BrowserScraper.scrapePage: anchors filtered by hostname in the page,    *)
(* then by visited                                                         *)
(***************************************************************************)
RECURSIVE browserLinks(_, _)
browserLinks(raw, vis) ==
  IF raw = << >> THEN << >>
  ELSE
    LET href == Href(Head(raw))
        rest == browserLinks(Tail(raw), vis)
    IN IF href.host = baseHostname /\ href \notin vis
         THEN << href >> \o rest
         ELSE rest

pageLinks(raw, vis) ==
  IF scraper = "axios" THEN extractLinks(raw, vis) ELSE browserLinks(raw, vis)

(***************************************************************************)
(* scrapeWebsite: the quality gate and the enqueueing of an accepted       *)
(* page's links                                                            *)
(***************************************************************************)
\* mutant: the threshold is off by one
passesQualityOffByOne(score) == score >= minQualityScore - 1

passesQuality(score) == score >= minQualityScore

\* if (!inQueue.has(link) && !this.visited.has(link))
mayEnqueue(link, inQ, vis) == link \notin inQ /\ link \notin vis

\* mutant: the links of a page below the threshold are enqueued as well
linksToEnqueueAlways(score, links) == links

\* the for loop over page.links stands inside
\* if (page.qualityScore >= this.minQualityScore)
linksToEnqueue(score, links) ==
  IF passesQuality(score) THEN links ELSE << >>

\* mutant: links are enqueued without inQueue.add(link)
RECURSIVE enqueueLinksUntracked(_, _, _, _)
enqueueLinksUntracked(links, q, inQ, vis) ==
  IF links = << >> THEN [queue |-> q, inQueue |-> inQ, added |-> << >>]
  ELSE
    LET link == Head(links) IN
    IF mayEnqueue(link, inQ, vis)
      THEN LET r == enqueueLinksUntracked(Tail(links), enqueue(q, link),
                                          inQ, vis)
           IN [r EXCEPT !.added = << link >> \o @]
      ELSE enqueueLinksUntracked(Tail(links), q, inQ, vis)

RECURSIVE enqueueLinks(_, _, _, _)
enqueueLinks(links, q, inQ, vis) ==
  IF links = << >> THEN [queue |-> q, inQueue |-> inQ, added |-> << >>]
  ELSE
    LET link == Head(links) IN
    IF mayEnqueue(link, inQ, vis)
      THEN LET r == enqueueLinks(Tail(links), enqueue(q, link),
                                 inQ \cup {link}, vis)
           IN [r EXCEPT !.added = << link >> \o @]
      ELSE enqueueLinks(Tail(links), q, inQ, vis)

QualityScores == { 19, 20 }

\* (title, mainContent) pairs the parser may extract from a fetched document
TitleHome == << Run("A", 1), Run("b", 1) >>
TitleNews == << Run("b", 2) >>
ContentLong == << Run("a", 120) >>
ContentShort == << Run("a", 99) >>

PageTexts == { [title |-> TitleHome, content |-> ContentLong],
               [title |-> TitleNews, content |-> ContentLong],
               [title |-> TitleNews, content |-> ContentShort] }

(***************************************************************************)
(* The crawl: one WebScraper or BrowserScraper session                     *)
(***************************************************************************)
\* constructor + the first lines of scrapeWebsite
StartCrawl(kind, base, mp) ==
  /\ scraper' = kind
  /\ baseUrl' = base
  /\ maxPages' = mp
  /\ visited' = {}
  /\ queue' = enqueue(NewQueue, base)
  /\ inQueue' = {base}
  /\ pages' = << >>
  /\ skippedLowQuality' = 0
  /\ cur' = base
  /\ fetchLog' = << >>
  /\ enqLog' = << base >>
  /\ deqLog' = << >>
  /\ lastOutcome' = "none"
  /\ foundLinks' = {}
  /\ rejectedLinks' = {}
  /\ pc' = "loop"
  /\ UNCHANGED << aloneVars, storeVars, embedVars, useBrowser, taskVars >>

CrawlInit ==
  \E start \in StartUrls, mp \in 1..MaxPagesBound, ub \in BOOLEAN :
    /\ useBrowser = ub
    /\ scraper = IF ub THEN "puppeteer" ELSE "axios"
    /\ baseUrl = normalizeUrl(start)
    /\ maxPages = mp
    /\ visited = {}
    /\ queue = enqueue(NewQueue, normalizeUrl(start))
    /\ inQueue = { normalizeUrl(start) }
    /\ pages = << >>
    /\ skippedLowQuality = 0
    /\ cur = normalizeUrl(start)
    /\ fetchLog = << >>
    /\ enqLog = << normalizeUrl(start) >>
    /\ deqLog = << >>
    /\ lastOutcome = "none"
    /\ foundLinks = {}
    /\ pc = "loop"
    /\ fingerprints = NoFingerprints
    /\ duplicateCount = 0
    /\ pageIndex = 1
    /\ processedPages = 0
    /\ skippedDuplicates = 0
    /\ errors = << >>
    /\ storeLog = << >>
    /\ EmbedIdle(defaultMaxRequests)
    /\ UnitIdle

\* while (!queue.isEmpty() && pages.length < this.maxPages)
loopContinues == ~isEmpty(queue) /\ Len(pages) < maxPages

nextUrl == dequeueItem(queue)

afterDequeue == IF scraper = "axios" THEN dequeue(queue) ELSE shift(queue)

\* scrapePage: if (this.visited.has(url) || this.visited.size >= this.maxPages)
scrapePageRefuses(url) == url \in visited \/ Cardinality(visited) >= maxPages

\* dequeue; scrapePage returns null at once; delay; next iteration
DequeueRefused ==
  /\ pc = "loop"
  /\ loopContinues
  /\ scrapePageRefuses(nextUrl)
  /\ queue' = afterDequeue
  /\ deqLog' = Append(deqLog, nextUrl)
  /\ cur' = nextUrl
  /\ lastOutcome' = "refused"
  /\ UNCHANGED << unitVars, storeVars, embedVars, scraper, useBrowser, baseUrl, maxPages, visited, inQueue,
                  pages, skippedLowQuality, pc, fetchLog, enqLog, foundLinks,
                  taskVars >>

\* dequeue; scrapePage marks the URL visited and starts the fetch
DequeueFetch ==
  /\ pc = "loop"
  /\ loopContinues
  /\ ~scrapePageRefuses(nextUrl)
  /\ queue' = afterDequeue
  /\ deqLog' = Append(deqLog, nextUrl)
  /\ cur' = nextUrl
  /\ visited' = visited \cup {nextUrl}
  /\ fetchLog' = Append(fetchLog, nextUrl)
  /\ pc' = "fetching"
  /\ UNCHANGED << unitVars, storeVars, embedVars, scraper, useBrowser, baseUrl, maxPages, inQueue, pages,
                  skippedLowQuality, enqLog, lastOutcome, foundLinks,
                  taskVars >>

\* mutant: a failed fetch is retried at once
FetchFailRetries ==
  /\ pc = "fetching"
  /\ fetchLog' = Append(fetchLog, cur)
  /\ lastOutcome' = "failed"
  /\ UNCHANGED << unitVars, storeVars, embedVars, scraper, useBrowser, baseUrl, maxPages, visited, queue,
                  inQueue, pages, skippedLowQuality, cur, pc, enqLog,
                  deqLog, foundLinks, taskVars >>

\* mutant: the error escapes scrapePage and ends scrapeWebsite
FetchFailAborts ==
  /\ pc = "fetching"
  /\ lastOutcome' = "failed"
  /\ pc' = "crawled"
  /\ UNCHANGED << unitVars, storeVars, embedVars, scraper, useBrowser, baseUrl, maxPages, visited, queue,
                  inQueue, pages, skippedLowQuality, cur, fetchLog, enqLog,
                  deqLog, foundLinks, taskVars >>

\* the transport throws, or the response is unusable: scrapePage returns null
FetchFail ==
  /\ pc = "fetching"
  /\ lastOutcome' = "failed"
  /\ pc' = "loop"
  /\ UNCHANGED << unitVars, storeVars, embedVars, scraper, useBrowser, baseUrl, maxPages, visited, queue,
                  inQueue, pages, skippedLowQuality, cur, fetchLog, enqLog,
                  deqLog, foundLinks, taskVars >>

\* scrapePage returns a page that scrapeWebsite accepts: pages.push(page) and
\* the enqueueing of its links
AcceptPage(score, text, raw) ==
  /\ pc = "fetching"
  /\ passesQuality(score)
  /\ LET links == pageLinks(raw, visited)
         page == [url |-> cur, title |-> text.title, content |-> text.content,
                  qualityScore |-> score]
         r == enqueueLinks(linksToEnqueue(score, links), queue, inQueue,
                           visited)
     IN /\ pages' = Append(pages, page)
        /\ queue' = r.queue
        /\ inQueue' = r.inQueue
        /\ enqLog' = enqLog \o r.added
  /\ foundLinks' = foundLinks \cup { Href(raw[k]) : k \in 1..Len(raw) }
  /\ lastOutcome' = "accepted"
  /\ pc' = "loop"
  /\ UNCHANGED << unitVars, storeVars, embedVars, scraper, useBrowser, baseUrl, maxPages, visited, cur,
                  skippedLowQuality, fetchLog, deqLog, taskVars >>

\* scrapePage returns a page below the threshold: skippedLowQuality++, and
\* page.links is not read
RejectPage(score, raw) ==
  /\ pc = "fetching"
  /\ ~passesQuality(score)
  /\ LET links == pageLinks(raw, visited)
         r == enqueueLinks(linksToEnqueue(score, links), queue, inQueue,
                           visited)
     IN /\ queue' = r.queue
        /\ inQueue' = r.inQueue
        /\ enqLog' = enqLog \o r.added
        /\ rejectedLinks' = rejectedLinks \cup SeqToSet(links)
  /\ skippedLowQuality' = skippedLowQuality + 1
  /\ lastOutcome' = "lowQuality"
  /\ pc' = "loop"
  /\ UNCHANGED << aloneVars, storeVars, embedVars, scraper, useBrowser,
                  baseUrl, maxPages, visited, pages, cur, fetchLog, deqLog,
                  foundLinks, taskVars >>

\* the while condition fails: scrapeWebsite returns pages
CrawlReturn ==
  /\ pc = "loop"
  /\ ~loopContinues
  /\ pc' = "crawled"
  /\ UNCHANGED << unitVars, storeVars, embedVars, crawlVars, useBrowser, taskVars >>

(***************************************************************************)
(* analyzeWebsiteTask.run after the first scrapeWebsite call               *)
(***************************************************************************)
\* if (pages.length === 0) with the HTTP scraper: new BrowserScraper(url)
BrowserFallback ==
  /\ pc = "crawled"
  /\ ~useBrowser /\ scraper = "axios"
  /\ pages = << >>
  /\ StartCrawl("puppeteer", baseUrl, maxPages)

\* if (pages.length === 0) throw new Error("No content found on the website")
NoContent ==
  /\ pc = "crawled"
  /\ pages = << >>
  /\ useBrowser \/ scraper = "puppeteer"
  /\ pc' = "failed"
  /\ UNCHANGED << unitVars, storeVars, embedVars, crawlVars, useBrowser, taskVars >>

\* deleteWebsiteEmbeddings resolves or throws
DeleteEmbeddings(ok) ==
  /\ pc = "crawled"
  /\ pages # << >>
  /\ pc' = IF ok THEN "embedding" ELSE "failed"
  /\ UNCHANGED << unitVars, storeVars, embedVars, crawlVars, useBrowser, taskVars >>

thisPage == pages[pageIndex]

\* if (page.content.length < 100) continue
tooShort(page) == StrLen(page.content) < 100

SkipShortPage ==
  /\ pc = "embedding"
  /\ pageIndex <= Len(pages)
  /\ tooShort(thisPage)
  /\ pageIndex' = pageIndex + 1
  /\ UNCHANGED << unitVars, storeVars, embedVars, crawlVars, useBrowser, pc, fingerprints, duplicateCount,
                  processedPages, skippedDuplicates, errors, storeLog >>

\* isDuplicate returns true: skippedDuplicates++; continue
SkipDuplicatePage ==
  /\ pc = "embedding"
  /\ pageIndex <= Len(pages)
  /\ ~tooShort(thisPage)
  /\ isDuplicate(fingerprints, thisPage.url, thisPage.title, thisPage.content)
  /\ duplicateCount' = duplicateCount + 1
  /\ skippedDuplicates' = skippedDuplicates + 1
  /\ pageIndex' = pageIndex + 1
  /\ UNCHANGED << unitVars, storeVars, embedVars, crawlVars, useBrowser, pc, fingerprints, processedPages,
                  errors, storeLog >>

\* isDuplicate returns false and stores the fingerprint; storeEmbeddings
\* resolves (processedPages++) or throws (errors.push)
StorePage(ok) ==
  /\ pc = "embedding"
  /\ pageIndex <= Len(pages)
  /\ ~tooShort(thisPage)
  /\ ~isDuplicate(fingerprints, thisPage.url, thisPage.title, thisPage.content)
  /\ fingerprints' = storeFingerprint(fingerprints, thisPage.url,
                                      thisPage.title, thisPage.content)
  /\ storeLog' = Append(storeLog, pageIndex)
  /\ IF ok THEN /\ processedPages' = processedPages + 1
                /\ UNCHANGED errors
           ELSE /\ errors' = Append(errors, thisPage.url)
                /\ UNCHANGED processedPages
  /\ pageIndex' = pageIndex + 1
  /\ UNCHANGED << unitVars, storeVars, embedVars, crawlVars, useBrowser, pc, duplicateCount,
                  skippedDuplicates >>

\* the loop is over: status "completed"
Complete ==
  /\ pc = "embedding"
  /\ pageIndex > Len(pages)
  /\ pc' = "completed"
  /\ UNCHANGED << unitVars, storeVars, embedVars, crawlVars, useBrowser, taskVars >>

\* one crawl session: scrapeWebsite of either scraper
CrawlNext ==
  \/ DequeueRefused
  \/ DequeueFetch
  \/ FetchFail
  \/ \E score \in QualityScores, raw \in RawLinkSeqs :
       \/ RejectPage(score, raw)
       \/ \E text \in PageTexts : AcceptPage(score, text, raw)
  \/ CrawlReturn

CrawlSpec == CrawlInit /\ [][CrawlNext]_vars

\* scrapeWebsite is one sequential async function: every await (the fetch
\* with its timeout, the inter-page delay) settles, so the loop always takes
\* its next step
FairCrawlSpec == CrawlSpec /\ WF_vars(CrawlNext)

\* analyzeWebsiteTask.run: the crawl, then the embedding loop
Next ==
  \/ CrawlNext
  \/ BrowserFallback
  \/ NoContent
  \/ \E ok \in BOOLEAN : DeleteEmbeddings(ok)
  \/ SkipShortPage
  \/ SkipDuplicatePage
  \/ \E ok \in BOOLEAN : StorePage(ok)
  \/ Complete

Spec == CrawlInit /\ [][Next]_vars

(***************************************************************************)
(* The Queue of WebScraper.scrapeWebsite over a crawl long enough for the   *)
(* compaction in dequeue().  Only the queue, inQueue and visited are        *)
(* followed; the URLs are numbered in the order of their discovery, and a   *)
(* page may repeat a link that was found before.                            *)
(***************************************************************************)
QueueInit ==
  /\ useBrowser = FALSE
  /\ scraper = "axios"
  /\ baseUrl = 1
  /\ maxPages = MaxQueueUrls
  /\ visited = {}
  /\ queue = enqueue(NewQueue, 1)
  /\ inQueue = {1}
  /\ pages = << >>
  /\ skippedLowQuality = 0
  /\ cur = 1
  /\ fetchLog = << >>
  /\ enqLog = << 1 >>
  /\ deqLog = << >>
  /\ lastOutcome = "none"
  /\ foundLinks = {}
  /\ pc = "queue"
  /\ fingerprints = NoFingerprints
  /\ duplicateCount = 0
  /\ pageIndex = 1
  /\ processedPages = 0
  /\ skippedDuplicates = 0
  /\ errors = << >>
  /\ storeLog = << >>
  /\ EmbedIdle(defaultMaxRequests)
  /\ UnitIdle

\* links an accepted page may carry: the next undiscovered URL, or one found
\* before (the root, the latest)
QueueLinks ==
  { 1, Len(enqLog) } \cup
  (IF Len(enqLog) < MaxQueueUrls THEN { Len(enqLog) + 1 } ELSE {})

\* scrapeWebsite: for (const link of page.links) ... queue.enqueue(link)
QueueOffer(link) ==
  /\ pc = "queue"
  /\ LET r == enqueueLinks(<< link >>, queue, inQueue, visited) IN
     /\ queue' = r.queue
     /\ inQueue' = r.inQueue
     /\ enqLog' = enqLog \o r.added
  /\ UNCHANGED << unitVars, storeVars, embedVars, scraper, baseUrl, maxPages, visited, pages,
                  skippedLowQuality, cur, fetchLog, deqLog, lastOutcome,
                  foundLinks, taskVars, useBrowser, pc >>

\* scrapeWebsite: const url = queue.dequeue(); scrapePage marks it visited
QueueTake ==
  /\ pc = "queue"
  /\ ~isEmpty(queue)
  /\ queue' = dequeue(queue)
  /\ deqLog' = Append(deqLog, nextUrl)
  /\ visited' = visited \cup { nextUrl }
  /\ cur' = nextUrl
  /\ UNCHANGED << unitVars, storeVars, embedVars, scraper, baseUrl, maxPages, inQueue, pages,
                  skippedLowQuality, fetchLog, enqLog, lastOutcome,
                  foundLinks, taskVars, useBrowser, pc >>

QueueNext ==
  \/ \E link \in QueueLinks : QueueOffer(link)
  \/ QueueTake

QueueSpec == QueueInit /\ [][QueueNext]_vars

(***************************************************************************)
(* RateLimiter (lib/services/rateLimiter.ts).  Time is counted in ticks of *)
(* one retryDelay; a timer set for some milliseconds fires at the first    *)
(* tick at or after its due time.  A tracked request carries its age       *)
(* (now - timestamp) in ticks, which stops counting once it is past the    *)
(* window: cleanup() drops such an entry whatever its age.                 *)
(***************************************************************************)
WindowTicks == 2        \* windowMs of the limiter, in ticks

maxRetries == 3         \* config.openai.maxRetries
retryDelay == 1000      \* config.openai.retryDelay (ms)
batchSize == 100        \* config.openai.batchSize
maxBatchSize == 1000    \* config.supabase.maxBatchSize
slotBufferMs == 100     \* waitForSlot: waitTime + 100
slotFallbackMs == 1000  \* waitForSlot: setTimeout(resolve, 1000)

TickMs == retryDelay
windowMs == WindowTicks * TickMs
timerTicks(ms) == (ms + TickMs - 1) \div TickMs

\* cleanup(): req.timestamp < now - windowMs
expired(req) == req.age * TickMs > windowMs

cleanupTimestamps(ts) == SelectSeq(ts, LAMBDA req : ~expired(req))

cleanupRequests(reqs, ts) ==
  reqs \ { ts[k].id : k \in { j \in 1..Len(ts) : expired(ts[j]) } }

\* canMakeRequest(): cleanup(), then requests.size < maxRequests
canMakeRequest(reqs, ts) ==
  Cardinality(cleanupRequests(reqs, ts)) < maxRequests

\* waitForSlot() up to its first suspension: either the loop is not entered
\* and the promise resolves, or a timer is set.  With waitTime <= 0 no timer
\* is set and the loop spins until the clock has moved: wait 0.
waitForSlot(reqs, ts) ==
  LET live == cleanupTimestamps(ts) IN
  IF canMakeRequest(reqs, ts)
  THEN [pc |-> "granted", wait |-> 0]
  ELSE IF live # << >>
       THEN LET waitTime == windowMs - live[1].age * TickMs IN
            [pc |-> "sleeping",
             wait |-> IF waitTime > 0 THEN timerTicks(waitTime + slotBufferMs)
                      ELSE 0]
       ELSE [pc |-> "sleeping", wait |-> timerTicks(slotFallbackMs)]

\* trackRequest(id): cleanup(), requests.add(id), requestTimestamps.push
trackedRequests(reqs, ts, id) == cleanupRequests(reqs, ts) \cup { id }

trackedTimestamps(ts, id) ==
  Append(cleanupTimestamps(ts), [age |-> 0, id |-> id])

\* mutant: removeRequest leaves the id in this.requests
removedRequestsNever(reqs, id) == reqs

\* removeRequest(id): this.requests.delete(id)
removedRequests(reqs, id) == reqs \ { id }

\* removeRequest(id): the filter of this.requestTimestamps
removedTimestamps(ts, id) == SelectSeq(ts, LAMBDA req : req.id # id)

(***************************************************************************)
(* EmbeddingService.generateEmbedding and storeEmbeddings                  *)
(* (lib/services/embeddings.ts).  The id of a withRateLimit call is the    *)
(* number of the chunk it embeds: a chunk has one call in flight at a time.*)
(***************************************************************************)
retryableStatuses == { 429, 500, 502, 503, 504 }

isRetryableError(error) ==
  \/ error.status \in retryableStatuses
  \/ error.code = "ECONNRESET"
  \/ error.code = "ETIMEDOUT"

\* errors the embed capability may answer with: a retryable status, a
\* status that is not retryable, a retryable code
EmbedErrors ==
  { [status |-> 429, code |-> ""],
    [status |-> 400, code |-> ""],
    [status |-> 0, code |-> "ECONNRESET"] }

retryAllowedOffByOne(retryCount, error) ==
  retryCount <= maxRetries /\ isRetryableError(error)

\* generateEmbedding's catch: retryCount < maxRetries, then isRetryableError
retryAllowed(retryCount, error) ==
  retryCount < maxRetries /\ isRetryableError(error)

\* config.openai.retryDelay * Math.pow(2, retryCount)
backoffDelay(retryCount) == retryDelay * 2 ^ retryCount

\* generateEmbeddingsBatch: texts.slice(i, i + batchSize), chunks numbered
\* from 1
batchOf(from, n) == { c \in Chunks : from <= c /\ c < from + batchSize /\ c <= n }

someEmbedded(cs, batch) == \E c \in batch : cs[c].pc = "ok"

\* Promise.all(batch.map(...)) has resolved
allEmbedded(cs, batch) == \A c \in batch : cs[c].pc = "ok"

\* generateEmbedding(text, retryCount) up to its first suspension: the two
\* checks of the text, then withRateLimit -> waitForSlot
enterCall(retryCount, old, reqs, ts) ==
  IF ~old.textOk
  THEN [old EXCEPT !.pc = "failed", !.retryCount = retryCount,
                   !.lastError = NoError]
  ELSE LET w == waitForSlot(reqs, ts) IN
       [old EXCEPT !.pc = w.pc, !.wait = w.wait, !.retryCount = retryCount,
                   !.lastError = NoError]

\* the calls map after Promise.all has started generateEmbedding for every
\* chunk of the batch
startBatch(cs, batch, reqs, ts) ==
  [c \in Chunks |->
     IF c \in batch THEN enterCall(0, cs[c], reqs, ts) ELSE cs[c]]

\* the chunks of a page: bad = those whose text generateEmbedding refuses
\* (empty, or longer than maxContentLength)
chunkCalls(bad) == [c \in Chunks |-> [idleCall EXCEPT !.textOk = c \notin bad]]

\* the limiter admits one request at a time, or as many as the page has
\* chunks
EmbedInit ==
  \E mr \in { 1, MaxChunks } :
    /\ EmbedIdle(mr)
    /\ UnitIdle
    /\ pc = "idle"
    /\ useBrowser = FALSE
    /\ scraper = "axios"
    /\ baseUrl = normalizeUrl(Url(BaseHost, "", ""))
    /\ maxPages = 1
    /\ visited = {}
    /\ queue = NewQueue
    /\ inQueue = {}
    /\ pages = << >>
    /\ skippedLowQuality = 0
    /\ cur = normalizeUrl(Url(BaseHost, "", ""))
    /\ fetchLog = << >>
    /\ enqLog = << >>
    /\ deqLog = << >>
    /\ lastOutcome = "none"
    /\ foundLinks = {}
    /\ fingerprints = NoFingerprints
    /\ duplicateCount = 0
    /\ pageIndex = 1
    /\ processedPages = 0
    /\ skippedDuplicates = 0
    /\ errors = << >>
    /\ storeLog = << >>

\* a chunk, by what the pipeline of storeEmbeddings reads of it: the
\* fingerprint of createChunkFingerprint, chunk.split(/\s+/).length, whether
\* it starts with one of the boilerplate patterns, whether it holds one of
\* . ! ?
minWords == 20          \* filterLowValueChunks: wordCount < 20

ChunkKinds ==
  [fingerprint : Chunks, wordCount : { minWords - 1, minWords },
   boilerplate : BOOLEAN, hasSentences : BOOLEAN]

RECURSIVE ChunkSeqsOf(_)
ChunkSeqsOf(len) ==
  IF len = 0 THEN { << >> }
  ELSE { Append(cs, k) : cs \in ChunkSeqsOf(len - 1), k \in ChunkKinds }

ChunkSeqs == UNION { ChunkSeqsOf(len) : len \in 0..MaxChunks }

\* deduplicateChunks: the first chunk of every fingerprint
RECURSIVE uniqueFrom(_, _)
uniqueFrom(chunks, seen) ==
  IF chunks = << >> THEN << >>
  ELSE IF Head(chunks).fingerprint \in seen
       THEN uniqueFrom(Tail(chunks), seen)
       ELSE << Head(chunks) >> \o
            uniqueFrom(Tail(chunks), seen \cup { Head(chunks).fingerprint })

deduplicateChunks(chunks) == uniqueFrom(chunks, {})

\* the predicate of filterLowValueChunks
isValuable(chunk) ==
  /\ ~(chunk.wordCount < minWords)
  /\ ~chunk.boilerplate
  /\ chunk.hasSentences /\ chunk.wordCount >= minWords

filterLowValueChunks(chunks) == SelectSeq(chunks, isValuable)

valuableChunks(chunks) == filterLowValueChunks(deduplicateChunks(chunks))

returnsEarlyNever(n) == FALSE

\* storeEmbeddings: if (valuableChunks.length === 0)
returnsEarly(n) == n = 0

\* storeEmbeddings up to its first suspension: the parameter check, the
\* chunking pipeline, the early return when no chunk is left, and the first
\* Promise.all of generateEmbeddingsBatch; bad = the valuable chunks whose
\* text generateEmbedding refuses
StoreEmbeddings(paramsOk, chunks, bad) ==
  /\ pc = "idle"
  /\ IF ~paramsOk
     THEN /\ pc' = "refused"
          /\ UNCHANGED << chunkCount, calls, requests, requestTimestamps,
                          storeVars >>
     ELSE LET n == Len(valuableChunks(chunks))
              batch == batchOf(1, n)
          IN
          /\ chunksCreated' = Len(chunks)
          /\ chunkCount' = n
          /\ IF returnsEarly(n)
             THEN /\ pc' = "stored"
                  /\ storeResult' = [status |-> "returned",
                                     chunksCreated |-> Len(chunks),
                                     chunksSaved |-> 0,
                                     chunksSkipped |-> Len(chunks)]
                  /\ UNCHANGED << calls, requests, requestTimestamps >>
             ELSE /\ calls' = startBatch(chunkCalls(bad), batch, requests,
                                          requestTimestamps)
                  /\ IF batch \subseteq bad
                     THEN UNCHANGED << requests, requestTimestamps >>
                     ELSE /\ requests' =
                               cleanupRequests(requests, requestTimestamps)
                          /\ requestTimestamps' =
                               cleanupTimestamps(requestTimestamps)
                  /\ pc' = IF batch \cap bad # {} THEN "thrown"
                           ELSE "embedding"
                  /\ UNCHANGED storeResult
  /\ UNCHANGED << unitVars, crawlVars, taskVars, useBrowser, maxRequests,
                  batchFrom, insertFrom, persisted >>

\* waitForSlot: the timer has fired; this.cleanup(), then the loop's test
WakeUp(c) ==
  /\ calls[c].pc = "sleeping"
  /\ calls[c].wait = 0
  /\ LET w == waitForSlot(requests, requestTimestamps) IN
     calls' = [calls EXCEPT ![c].pc = w.pc, ![c].wait = w.wait]
  /\ requests' = cleanupRequests(requests, requestTimestamps)
  /\ requestTimestamps' = cleanupTimestamps(requestTimestamps)
  /\ UNCHANGED << unitVars, storeVars, crawlVars, taskVars, useBrowser, pc, maxRequests,
                  chunkCount, batchFrom, insertFrom, persisted >>

\* withRateLimit after `await waitForSlot()`: trackRequest(id), then fn()
\* sends the request to the embed capability
TrackAndCall(c) ==
  /\ calls[c].pc = "granted"
  /\ requests' = trackedRequests(requests, requestTimestamps, c)
  /\ requestTimestamps' = trackedTimestamps(requestTimestamps, c)
  /\ calls' = [calls EXCEPT ![c].pc = "running",
                            ![c].attempts = calls[c].attempts + 1]
  /\ UNCHANGED << unitVars, storeVars, crawlVars, taskVars, useBrowser, pc, maxRequests,
                  chunkCount, batchFrom, insertFrom, persisted >>

\* the embed capability answers with an embedding: withRateLimit's finally
\* removes the request and generateEmbedding returns.  When this settles
\* the Promise.all of the batch, generateEmbeddingsBatch starts the next
\* batch or returns, and storeEmbeddings goes on to the inserts.
EmbedSucceeds(c) ==
  /\ calls[c].pc = "running"
  /\ LET done == [calls EXCEPT ![c].pc = "ok"]
         reqs == removedRequests(requests, c)
         ts == removedTimestamps(requestTimestamps, c)
         batch == batchOf(batchFrom, chunkCount)
         more == batchOf(batchFrom + batchSize, chunkCount)
     IN IF pc = "embedding" /\ allEmbedded(done, batch)
        THEN IF more # {}
             THEN /\ batchFrom' = batchFrom + batchSize
                  /\ calls' = startBatch(done, more, reqs, ts)
                  /\ IF \A m \in more : ~done[m].textOk
                     THEN requests' = reqs /\ requestTimestamps' = ts
                     ELSE /\ requests' = cleanupRequests(reqs, ts)
                          /\ requestTimestamps' = cleanupTimestamps(ts)
                  /\ pc' = IF \E m \in more : ~done[m].textOk
                           THEN "thrown" ELSE "embedding"
             ELSE /\ calls' = done
                  /\ requests' = reqs
                  /\ requestTimestamps' = ts
                  /\ pc' = "inserting"
                  /\ UNCHANGED batchFrom
        ELSE /\ calls' = done
             /\ requests' = reqs
             /\ requestTimestamps' = ts
             /\ UNCHANGED << pc, batchFrom >>
  /\ UNCHANGED << unitVars, storeVars, crawlVars, taskVars, useBrowser, maxRequests, chunkCount,
                  insertFrom, persisted >>

\* the embed capability answers with an error: withRateLimit's finally
\* removes the request, and generateEmbedding's catch either sets the
\* backoff timer or throws, which rejects the Promise.all and makes
\* storeEmbeddings throw
EmbedFails(c, error) ==
  /\ calls[c].pc = "running"
  /\ requests' = removedRequests(requests, c)
  /\ requestTimestamps' = removedTimestamps(requestTimestamps, c)
  /\ IF retryAllowed(calls[c].retryCount, error)
     THEN /\ calls' = [calls EXCEPT
                         ![c].pc = "backoff",
                         ![c].wait = timerTicks(backoffDelay(calls[c].retryCount)),
                         ![c].lastError = error]
          /\ UNCHANGED pc
     ELSE /\ calls' = [calls EXCEPT ![c].pc = "failed", ![c].lastError = error]
          /\ pc' = IF pc = "embedding" THEN "thrown" ELSE pc
  /\ UNCHANGED << unitVars, storeVars, crawlVars, taskVars, useBrowser, maxRequests, chunkCount,
                  batchFrom, insertFrom, persisted >>

\* the backoff timer has fired: return this.generateEmbedding(text,
\* retryCount + 1)
Retry(c) ==
  /\ calls[c].pc = "backoff"
  /\ calls[c].wait = 0
  /\ calls' = [calls EXCEPT
                 ![c] = enterCall(calls[c].retryCount + 1, calls[c], requests,
                                  requestTimestamps)]
  /\ requests' = cleanupRequests(requests, requestTimestamps)
  /\ requestTimestamps' = cleanupTimestamps(requestTimestamps)
  /\ UNCHANGED << unitVars, storeVars, crawlVars, taskVars, useBrowser, pc, maxRequests,
                  chunkCount, batchFrom, insertFrom, persisted >>

\* storeEmbeddings: one insert of records.slice(i, i + maxBatchSize)
InsertRecords(dbOk) ==
  /\ pc = "inserting"
  /\ IF dbOk
     THEN /\ persisted' = persisted \cup
                 { c \in 1..chunkCount :
                     insertFrom <= c /\ c < insertFrom + maxBatchSize }
          /\ insertFrom' = insertFrom + maxBatchSize
          /\ IF insertFrom + maxBatchSize > chunkCount
             THEN /\ pc' = "stored"
                  /\ storeResult' =
                       [status |-> "returned",
                        chunksCreated |-> chunksCreated,
                        chunksSaved |-> chunkCount,
                        chunksSkipped |-> chunksCreated - chunkCount]
             ELSE /\ pc' = "inserting"
                  /\ UNCHANGED storeResult
     ELSE /\ pc' = "thrown"
          /\ UNCHANGED << persisted, insertFrom, storeResult >>
  /\ UNCHANGED << unitVars, chunksCreated, crawlVars, taskVars, useBrowser, maxRequests, requests,
                  requestTimestamps, chunkCount, batchFrom, calls >>

\* one tick of the clock
Tick ==
  /\ \/ \E c \in Chunks : calls[c].wait > 0
     \/ \E k \in 1..Len(requestTimestamps) : ~expired(requestTimestamps[k])
  /\ calls' = [c \in Chunks |->
                 [calls[c] EXCEPT !.wait = IF @ > 0 THEN @ - 1 ELSE 0]]
  /\ requestTimestamps' =
       [k \in 1..Len(requestTimestamps) |->
          [requestTimestamps[k] EXCEPT
             !.age = IF expired(requestTimestamps[k]) THEN @ ELSE @ + 1]]
  /\ UNCHANGED << unitVars, storeVars, crawlVars, taskVars, useBrowser, pc, maxRequests, requests,
                  chunkCount, batchFrom, insertFrom, persisted >>

EmbedNext ==
  \/ /\ pc = "idle"
     /\ \E paramsOk \in BOOLEAN, chunks \in ChunkSeqs :
          \E bad \in SUBSET (1..Len(valuableChunks(chunks))) :
            StoreEmbeddings(paramsOk, chunks, bad)
  \/ \E c \in Chunks : WakeUp(c)
  \/ \E c \in Chunks : TrackAndCall(c)
  \/ \E c \in Chunks : EmbedSucceeds(c)
  \/ \E c \in Chunks, error \in EmbedErrors : EmbedFails(c, error)
  \/ \E c \in Chunks : Retry(c)
  \/ \E dbOk \in BOOLEAN : InsertRecords(dbOk)
  \/ Tick

EmbedSpec == EmbedInit /\ [][EmbedNext]_vars

(***************************************************************************)
(* A DeduplicationService used on its own: any sequence of isDuplicate     *)
(* calls and reset() calls, as the unit tests make them.                   *)
(***************************************************************************)
MaxDedupCalls == 3      \* isDuplicate calls made on one service

\* a page without crawl or embedding going on
NoPipeline ==
  /\ EmbedIdle(defaultMaxRequests)
  /\ useBrowser = FALSE
  /\ scraper = "axios"
  /\ baseUrl = normalizeUrl(Url(BaseHost, "", ""))
  /\ maxPages = 1
  /\ visited = {}
  /\ queue = NewQueue
  /\ inQueue = {}
  /\ pages = << >>
  /\ skippedLowQuality = 0
  /\ cur = normalizeUrl(Url(BaseHost, "", ""))
  /\ fetchLog = << >>
  /\ enqLog = << >>
  /\ deqLog = << >>
  /\ lastOutcome = "none"
  /\ foundLinks = {}
  /\ rejectedLinks = {}
  /\ MoreIdle
  /\ pageIndex = 1
  /\ processedPages = 0
  /\ skippedDuplicates = 0
  /\ errors = << >>
  /\ storeLog = << >>

DedupUrls == { Url(BaseHost, "/a", ""), Url(BaseHost, "/b", "") }

\* the letters of a text with their case swapped
swapChar(c) ==
  IF c = "a" THEN "A" ELSE IF c = "A" THEN "a"
  ELSE IF c = "b" THEN "B" ELSE IF c = "B" THEN "b" ELSE c

RECURSIVE swapCase(_)
swapCase(s) ==
  IF s = << >> THEN << >>
  ELSE << Run(swapChar(Head(s).c), Head(s).n) >> \o swapCase(Tail(s))

\* every whitespace run of a text replaced by a longer run of line breaks
RECURSIVE widenSpaces(_)
widenSpaces(s) ==
  IF s = << >> THEN << >>
  ELSE << IF isSpace(Head(s).c) THEN Run("\n", Head(s).n + 1) ELSE Head(s) >>
       \o widenSpaces(Tail(s))

\* the texts that differ from s only in letter case or in whitespace runs
textVariants(s) ==
  { s, swapCase(s), widenSpaces(s), widenSpaces(swapCase(s)) }

TitleSpaced == << Run("a", 1), Run(" ", 1), Run("b", 1) >>
ContentA == << Run("a", 1000), Run(" ", 1), Run("a", 999) >>
ContentB == << Run("b", 2100) >>

DedupTitles == { TitleSpaced, widenSpaces(swapCase(TitleSpaced)), TitleNews }

\* ContentA has 2000 characters, its variant 2001, ContentB 2100
DedupContents == { ContentA, widenSpaces(swapCase(ContentA)), ContentB }

DedupInit ==
  /\ NoPipeline
  /\ pc = "dedup"
  /\ fingerprints = NoFingerprints
  /\ duplicateCount = 0
  /\ dedupHist = NoCall
  /\ ChunkerIdle
  /\ IngestIdle
  /\ FnIdle
  /\ ApiIdle

\* one isDuplicate(url, title, content) call
IsDuplicate(url, title, content) ==
  /\ pc = "dedup"
  /\ dedupHist.calls < MaxDedupCalls
  /\ LET duplicate == isDuplicate(fingerprints, url, title, content)
         fp == createFingerprint(url, title, content)
     IN
     /\ fingerprints' = IF duplicate THEN fingerprints
                        ELSE storeFingerprint(fingerprints, url, title, content)
     /\ duplicateCount' = countDuplicates(duplicateCount, duplicate)
     /\ dedupHist' =
          [last |-> "call", url |-> url, title |-> title, content |-> content,
           returned |-> duplicate,
           afterReset |-> dedupHist.last = "reset",
           resubmitted |->
             /\ url \in DOMAIN dedupHist.source
             /\ dedupHist.source[url] = [title |-> title, content |-> content],
           calls |-> dedupHist.calls + 1,
           trueCalls |-> dedupHist.trueCalls + (IF duplicate THEN 1 ELSE 0),
           falseUrls |-> IF duplicate THEN dedupHist.falseUrls
                         ELSE dedupHist.falseUrls \cup { url },
           firstSeen |-> IF duplicate \/ url \in DOMAIN dedupHist.firstSeen
                         THEN dedupHist.firstSeen
                         ELSE (url :> fp) @@ dedupHist.firstSeen,
           source |-> IF duplicate THEN dedupHist.source
                      ELSE (url :> [title |-> title, content |-> content])
                           @@ dedupHist.source,
           seenBeforeReset |-> dedupHist.seenBeforeReset]
  /\ UNCHANGED << crawlVars, embedVars, storeVars, useBrowser, pc, pageIndex,
                  processedPages, skippedDuplicates, errors, storeLog,
                  chunkVars, ingestVars, fnVars, apiVars, rejectedLinks, moreVars >>

\* mutant: reset() clears the counter only
ResetCountOnly ==
  /\ pc = "dedup"
  /\ duplicateCount' = 0
  /\ dedupHist' =
       [NoCall EXCEPT !.last = "reset", !.calls = dedupHist.calls,
                      !.seenBeforeReset =
                         { dedupHist.source[u] : u \in DOMAIN dedupHist.source }]
  /\ UNCHANGED << crawlVars, embedVars, storeVars, useBrowser, pc, pageIndex,
                  processedPages, skippedDuplicates, errors, storeLog,
                  chunkVars, ingestVars, fnVars, apiVars, rejectedLinks, moreVars, fingerprints >>

\* reset()
Reset ==
  /\ pc = "dedup"
  /\ fingerprints' = NoFingerprints
  /\ duplicateCount' = 0
  /\ dedupHist' =
       [NoCall EXCEPT !.last = "reset", !.calls = dedupHist.calls,
                      !.seenBeforeReset =
                         { dedupHist.source[u] : u \in DOMAIN dedupHist.source }]
  /\ UNCHANGED << crawlVars, embedVars, storeVars, useBrowser, pc, pageIndex,
                  processedPages, skippedDuplicates, errors, storeLog,
                  chunkVars, ingestVars, fnVars, apiVars, rejectedLinks, moreVars >>

DedupNext ==
  \/ \E url \in DedupUrls, title \in DedupTitles, content \in DedupContents :
       IsDuplicate(url, title, content)
  \/ Reset

DedupSpec == DedupInit /\ [][DedupNext]_vars

(***************************************************************************)
(* EmbeddingService.chunkTextSmartly on its own.  Here a text is the       *)
(* sequence of its characters, over letters, blanks, full stops and line   *)
(* breaks.                                                                 *)
(***************************************************************************)
MaxTextLen == 5         \* length of the text handed to the chunker

TextChars == { "a", " ", ".", "\n" }

RECURSIVE TextsOf(_)
TextsOf(len) ==
  IF len = 0 THEN { << >> }
  ELSE { Append(t, c) : t \in TextsOf(len - 1), c \in TextChars }

Texts == UNION { TextsOf(len) : len \in 1..MaxTextLen }

isTerminator(c) == c \in { ".", "!", "?" }

\* String.prototype.trim on a sequence of characters
RECURSIVE trimStart(_)
trimStart(s) ==
  IF s # << >> /\ isSpace(Head(s)) THEN trimStart(Tail(s)) ELSE s

RECURSIVE trimEnd(_)
trimEnd(s) ==
  IF s # << >> /\ isSpace(s[Len(s)])
  THEN trimEnd(SubSeq(s, 1, Len(s) - 1)) ELSE s

trimChars(s) == trimEnd(trimStart(s))

RECURSIVE skipBreaks(_)
skipBreaks(s) ==
  IF s # << >> /\ Head(s) = "\n" THEN skipBreaks(Tail(s)) ELSE s

\* text.split(/\n\n+/), cur being the paragraph read so far
RECURSIVE splitParagraphsFrom(_, _)
splitParagraphsFrom(s, part) ==
  IF s = << >> THEN << part >>
  ELSE IF Len(s) >= 2 /\ s[1] = "\n" /\ s[2] = "\n"
       THEN << part >> \o splitParagraphsFrom(skipBreaks(s), << >>)
       ELSE splitParagraphsFrom(Tail(s), Append(part, Head(s)))

splitParagraphs(text) == splitParagraphsFrom(text, << >>)

\* the matches of /[^.!?]+[.!?]+/g: terminators with nothing before them
\* are skipped, and so is what follows the last terminator
RECURSIVE matchSentencesFrom(_, _, _)
matchSentencesFrom(s, sentence, inTerminators) ==
  IF s = << >> THEN (IF inTerminators THEN << sentence >> ELSE << >>)
  ELSE IF isTerminator(Head(s))
       THEN IF sentence = << >>
            THEN matchSentencesFrom(Tail(s), << >>, FALSE)
            ELSE matchSentencesFrom(Tail(s), Append(sentence, Head(s)), TRUE)
       ELSE IF inTerminators
            THEN << sentence >>
                 \o matchSentencesFrom(Tail(s), << Head(s) >>, FALSE)
            ELSE matchSentencesFrom(Tail(s), Append(sentence, Head(s)), FALSE)

\* trimmedParagraph.match(/[^.!?]+[.!?]+/g) || [trimmedParagraph]
sentencesOf(paragraph) ==
  LET found == matchSentencesFrom(paragraph, << >>, FALSE) IN
  IF found = << >> THEN << paragraph >> ELSE found

\* the loop over the sentences of an over-long paragraph
RECURSIVE packSentences(_, _, _, _)
packSentences(sentences, paragraphChunk, chunks, chunkSize) ==
  IF sentences = << >>
  THEN [chunks |-> chunks, paragraphChunk |-> paragraphChunk]
  ELSE IF Len(paragraphChunk) + Len(Head(sentences)) > chunkSize
       THEN packSentences(Tail(sentences), Head(sentences),
                          IF paragraphChunk # << >>
                          THEN Append(chunks, trimChars(paragraphChunk))
                          ELSE chunks,
                          chunkSize)
       ELSE packSentences(Tail(sentences), paragraphChunk \o Head(sentences),
                          chunks, chunkSize)

\* currentChunk.split(" ")
RECURSIVE splitWordsFrom(_, _)
splitWordsFrom(s, word) ==
  IF s = << >> THEN << word >>
  ELSE IF Head(s) = " " THEN << word >> \o splitWordsFrom(Tail(s), << >>)
       ELSE splitWordsFrom(Tail(s), Append(word, Head(s)))

\* words.join(" ")
RECURSIVE joinWords(_)
joinWords(words) ==
  IF words = << >> THEN << >>
  ELSE IF Len(words) = 1 THEN words[1]
       ELSE words[1] \o << " " >> \o joinWords(Tail(words))

\* words.slice(-k): all of them for k = 0 (slice(-0) is slice(0))
sliceLast(words, k) ==
  IF k = 0 \/ k >= Len(words) THEN words
  ELSE SubSeq(words, Len(words) - k + 1, Len(words))

\* Math.ceil(a / b)
ceilDiv(a, b) == (a + b - 1) \div b

\* the overlap seed of the next chunk
overlapTail(currentChunk, chunkOverlap) ==
  joinWords(sliceLast(splitWordsFrom(currentChunk, << >>),
                      ceilDiv(chunkOverlap, 5)))

paragraphBreak == << "\n", "\n" >>

\* the loop over the paragraphs, and the push of the last chunk
RECURSIVE chunkParagraphs(_, _, _, _, _)
chunkParagraphs(paragraphs, chunks, currentChunk, chunkSize, chunkOverlap) ==
  IF paragraphs = << >>
  THEN IF trimChars(currentChunk) # << >>
       THEN Append(chunks, trimChars(currentChunk)) ELSE chunks
  ELSE LET trimmedParagraph == trimChars(Head(paragraphs))
           pushed == IF currentChunk # << >>
                     THEN Append(chunks, trimChars(currentChunk)) ELSE chunks
       IN
       IF Len(trimmedParagraph) > chunkSize
       THEN LET packed == packSentences(sentencesOf(trimmedParagraph), << >>,
                                        pushed, chunkSize)
            IN chunkParagraphs(Tail(paragraphs), packed.chunks,
                               packed.paragraphChunk, chunkSize, chunkOverlap)
       ELSE IF Len(currentChunk) + 2 + Len(trimmedParagraph) > chunkSize
            THEN chunkParagraphs(Tail(paragraphs), pushed,
                                 overlapTail(currentChunk, chunkOverlap)
                                   \o paragraphBreak \o trimmedParagraph,
                                 chunkSize, chunkOverlap)
            ELSE chunkParagraphs(Tail(paragraphs), chunks,
                                 (IF currentChunk # << >>
                                  THEN currentChunk \o paragraphBreak
                                  ELSE << >>) \o trimmedParagraph,
                                 chunkSize, chunkOverlap)

chunkTextSmartly(text, chunkSize, chunkOverlap) ==
  IF Len(text) <= chunkSize THEN << text >>
  ELSE chunkParagraphs(splitParagraphs(text), << >>, << >>, chunkSize,
                       chunkOverlap)

\* text.slice(i, i + chunkSize) for i = 0, step, 2 * step, ...
RECURSIVE hardSplit(_, _, _, _)
hardSplit(sentence, i, chunkSize, step) ==
  IF i >= Len(sentence) THEN << >>
  ELSE LET chunk == SubSeq(sentence, i + 1, Min2(i + chunkSize, Len(sentence)))
       IN (IF trimChars(chunk) # << >> THEN << trimChars(chunk) >> ELSE << >>)
          \o hardSplit(sentence, i + step, chunkSize, step)

\* the values of i at which the body of that loop runs
RECURSIVE hardSplitOffsets(_, _, _)
hardSplitOffsets(sentence, i, step) ==
  IF i >= Len(sentence) THEN << >>
  ELSE << i >> \o hardSplitOffsets(sentence, i + step, step)

\* mutant: the loop advances by chunkSize
splitStepNoOverlap(chunkSize, chunkOverlap) == chunkSize

\* i += this.chunkSize - this.chunkOverlap
splitStep(chunkSize, chunkOverlap) == chunkSize - chunkOverlap

\* the loop of chunkText over the sentences, and the push of the last chunk;
\* diverges: the character split was entered with a step that is not
\* positive, so that its loop never ends
RECURSIVE chunkSentences(_, _, _, _, _)
chunkSentences(sentences, chunks, currentChunk, chunkSize, chunkOverlap) ==
  IF sentences = << >>
  THEN [chunks |-> IF trimChars(currentChunk) # << >>
                   THEN Append(chunks, trimChars(currentChunk)) ELSE chunks,
        diverges |-> FALSE, splits |-> << >>]
  ELSE LET sentence == Head(sentences) IN
       IF Len(currentChunk) + Len(sentence) > chunkSize
       THEN IF currentChunk # << >>
            THEN chunkSentences(Tail(sentences),
                                Append(chunks, trimChars(currentChunk)),
                                sliceLast(currentChunk, chunkOverlap)
                                  \o sentence,
                                chunkSize, chunkOverlap)
            ELSE LET step == splitStep(chunkSize, chunkOverlap) IN
                 IF step <= 0
                 THEN [chunks |-> chunks, diverges |-> TRUE,
                       splits |-> << >>]
                 ELSE LET rest ==
                            chunkSentences(Tail(sentences),
                                           chunks \o hardSplit(sentence, 0,
                                                               chunkSize, step),
                                           << >>, chunkSize, chunkOverlap)
                      IN [rest EXCEPT
                            !.splits =
                              << [length |-> Len(sentence),
                                  offsets |-> hardSplitOffsets(sentence, 0,
                                                               step)] >>
                              \o @]
       ELSE chunkSentences(Tail(sentences), chunks, currentChunk \o sentence,
                           chunkSize, chunkOverlap)

chunkText(text, chunkSize, chunkOverlap) ==
  IF Len(text) <= chunkSize
  THEN [chunks |-> << text >>, diverges |-> FALSE, splits |-> << >>]
  ELSE chunkSentences(sentencesOf(text), << >>, << >>, chunkSize, chunkOverlap)

(***************************************************************************)
(* lib/config.ts: the environment is validated when the module is loaded   *)
(***************************************************************************)
digitValue(c) ==
  CASE c = "0" -> 0 [] c = "1" -> 1 [] c = "2" -> 2 [] c = "3" -> 3
    [] c = "4" -> 4 [] c = "5" -> 5 [] c = "6" -> 6 [] c = "7" -> 7
    [] c = "8" -> 8 [] c = "9" -> 9 [] OTHER -> -1

\* the value of the leading decimal digits of s, acc being the value so far
RECURSIVE parseDigits(_, _)
parseDigits(s, acc) ==
  IF s = << >> \/ digitValue(Head(s)) < 0 THEN acc
  ELSE parseDigits(Tail(s), 10 * acc + digitValue(Head(s)))

NaN == "NaN"

parseInt(s) ==
  IF s = << >> \/ digitValue(Head(s)) < 0 THEN NaN ELSE parseDigits(s, 0)

\* z.string().min(1)
requiredString(v) == v.set /\ v.value # << >>

\* z.string().optional().default(d)
optionalString(v, d) == IF v.set THEN v.value ELSE d

\* envSchema.parse succeeds
envSchemaAccepts(e) == requiredString(e.OPENAI_API_KEY)

\* a || b on strings
orElse(a, b) == IF a # << >> THEN a ELSE b

ingestionConfig(e) ==
  [loaded |-> TRUE,
   chunkSize |->
     parseInt(orElse(optionalString(e.CHUNK_SIZE, << "1", "0", "0", "0" >>),
                     << "1", "0", "0", "0" >>)),
   chunkOverlap |->
     parseInt(orElse(optionalString(e.CHUNK_OVERLAP, << "2", "0", "0" >>),
                     << "2", "0", "0" >>))]

Envs ==
  [OPENAI_API_KEY : { Str(<< >>), Str(<< "k" >>) },
   CHUNK_SIZE : { Undefined, Str(<< "3" >>), Str(<< "4" >>),
                  Str(<< "2", "0" >>) },
   CHUNK_OVERLAP : { Undefined, Str(<< "0" >>), Str(<< "1" >>), Str(<< "4" >>),
                     Str(<< "5" >>) }]

\* "A".repeat(n)
RECURSIVE repeat(_, _)
repeat(c, n) == IF n = 0 THEN << >> ELSE << c >> \o repeat(c, n - 1)

ChunkerTexts == Texts \cup { repeat("A", 50) }

ChunkInit ==
  /\ NoPipeline
  /\ pc = "startup"
  /\ fingerprints = NoFingerprints
  /\ duplicateCount = 0
  /\ dedupHist = NoCall
  /\ chunkerIn = << >>
  /\ chunkerOut = << >>
  /\ hardSplits = << >>
  /\ env \in Envs
  /\ config = NoConfig
  /\ IngestIdle
  /\ FnIdle
  /\ ApiIdle

\* const env = validateEnv(); export const config = { ... }
LoadConfig ==
  /\ pc = "startup"
  /\ envSchemaAccepts(env)
  /\ config' = ingestionConfig(env)
  /\ pc' = "chunker"
  /\ UNCHANGED << crawlVars, taskVars, embedVars, storeVars, useBrowser,
                  dedupHist, chunkerIn, chunkerOut, hardSplits, env,
                  ingestVars,
                  fnVars, apiVars, rejectedLinks, moreVars >>

\* validateEnv throws "Environment validation failed"
ConfigFails ==
  /\ pc = "startup"
  /\ ~envSchemaAccepts(env)
  /\ pc' = "failed"
  /\ UNCHANGED << crawlVars, taskVars, embedVars, storeVars, useBrowser,
                  unitVars >>

\* const chunks = this.chunkTextSmartly(content)
ChunkTextSmartly(text) ==
  /\ pc = "chunker"
  /\ chunkerIn' = [text |-> text, chunkSize |-> config.chunkSize,
                   chunkOverlap |-> config.chunkOverlap]
  /\ chunkerOut' = chunkTextSmartly(text, config.chunkSize, config.chunkOverlap)
  /\ hardSplits' = << >>
  /\ pc' = "chunked"
  /\ UNCHANGED << crawlVars, taskVars, embedVars, storeVars, useBrowser,
                  dedupHist, env, config, ingestVars,
                  fnVars, apiVars, rejectedLinks, moreVars >>

\* const chunks = this.chunkText(content)
ChunkText(text) ==
  /\ pc = "chunker"
  /\ chunkerIn' = [text |-> text, chunkSize |-> config.chunkSize,
                   chunkOverlap |-> config.chunkOverlap]
  /\ LET result == chunkText(text, config.chunkSize, config.chunkOverlap) IN
     /\ chunkerOut' = result.chunks
     /\ hardSplits' = result.splits
     /\ pc' = IF result.diverges THEN "hung" ELSE "split"
  /\ UNCHANGED << crawlVars, taskVars, embedVars, storeVars, useBrowser,
                  dedupHist, env, config, ingestVars,
                  fnVars, apiVars, rejectedLinks, moreVars >>

ChunkNext ==
  \/ LoadConfig
  \/ ConfigFails
  \/ /\ pc = "chunker"
     /\ \E text \in ChunkerTexts : ChunkTextSmartly(text)
  \/ /\ pc = "chunker"
     /\ \E text \in ChunkerTexts : ChunkText(text)

ChunkSpec == ChunkInit /\ [][ChunkNext]_vars

(***************************************************************************)
(* The ingestion entry points: ingestWebsiteTask.run (jobs/ingest-website) *)
(* and the POST handlers of /api/ingest and /api/analyze.  Runs of one     *)
(* website follow each other; db is the website_embeddings table.  A page  *)
(* is "short" (content under 100 characters) or "long".                    *)
(***************************************************************************)
MaxIngestPages == 2     \* pages returned by a crawl
Runs == { 1, 2 }        \* a run of the website and the run after it

Entries == { "ingest-website", "POST /api/ingest", "POST /api/analyze" }

PageKinds == { "short", "long" }

IngestPageSeqs == UNION { [1..n -> PageKinds] : n \in 0..MaxIngestPages }

\* what one storeEmbeddings call does: it saves its records, returns with
\* nothing worth saving, throws, or throws after an insert batch went in
StoreOutcomes == { "saved", "empty", "thrown", "thrownPartial" }

Site == "https://example.com"

Row(website, run, page, complete) ==
  [website |-> website, run |-> run, page |-> page, complete |-> complete]

\* rows of another website, which no run of Site touches
OtherRows == { Row("https://other.example", 0, 1, TRUE) }

websiteRows(rows, website) == { r \in rows : r.website = website }

\* mutant: the bulk delete removes nothing
deletedRowsNone(rows, website) == rows

\* supabase.from("website_embeddings").delete().eq("website_url", websiteUrl)
deletedRows(rows, website) == rows \ websiteRows(rows, website)

\* the rows one storeEmbeddings call leaves in the table
storedRows(outcome, run, page) ==
  CASE outcome = "saved" -> { Row(Site, run, page, TRUE) }
    [] outcome = "thrownPartial" -> { Row(Site, run, page, FALSE) }
    [] OTHER -> {}

\* mutant: processedPages++ also when storeEmbeddings threw
processedAfterAlways(n, outcome) == n + 1

\* processedPages++ after storeEmbeddings returned
processedAfter(n, outcome) ==
  IF outcome \in { "saved", "empty" } THEN n + 1 ELSE n

\* totalEmbeddings += result.chunksSaved
embeddingsAfter(n, outcome) == IF outcome = "saved" THEN n + 1 ELSE n

\* the catch of the run: handleError's response, or the task's failure result
failureResult == [NoIngestResult EXCEPT !.status = "error"]

successResult(run) ==
  [status |-> "returned", success |-> TRUE, pagesScraped |-> Len(run.pages),
   pagesProcessed |-> run.processedPages,
   embeddingsCreated |-> run.totalEmbeddings]

IngestInit ==
  /\ NoPipeline
  /\ pc = "start"
  /\ fingerprints = NoFingerprints
  /\ duplicateCount = 0
  /\ dedupHist = NoCall
  /\ ChunkerIdle
  /\ FnIdle
  /\ ApiIdle
  /\ db = OtherRows
  /\ ingest = [NoIngest EXCEPT !.run = 1]

IngestUnchanged ==
  UNCHANGED << crawlVars, taskVars, embedVars, storeVars, useBrowser,
               dedupHist, chunkVars, fnVars, apiVars, rejectedLinks, moreVars >>

\* the handler up to its first crawl: validation of the body (routes),
\* the cache lookup (/api/analyze), the choice of the scraper
StartRun(entry, browser, valid, cachedHit) ==
  /\ pc = "start"
  /\ IF entry # "ingest-website" /\ ~valid
     THEN /\ ingest' = [ingest EXCEPT !.entry = entry, !.result = failureResult]
          /\ pc' = "done"
     ELSE IF entry = "POST /api/analyze" /\ cachedHit
          THEN /\ ingest' = [ingest EXCEPT
                              !.entry = entry,
                              !.result = [NoIngestResult EXCEPT
                                            !.status = "cached",
                                            !.success = TRUE]]
               /\ pc' = "done"
          ELSE /\ ingest' = [ingest EXCEPT !.entry = entry,
                                           !.useBrowser = browser]
               /\ pc' = IF browser THEN "browser" ELSE "http"
  /\ UNCHANGED db
  /\ IngestUnchanged

\* mutant: the browser crawl follows the HTTP crawl whatever it returned
fallsBackAlways(entry, found) == entry # "POST /api/ingest"

\* after the WebScraper's crawl: if (pages.length === 0), which
\* POST /api/ingest answers with an error and the other two entry points with
\* a BrowserScraper crawl
fallsBack(entry, found) == entry # "POST /api/ingest" /\ found = << >>

\* scrapeWebsite() of the WebScraper or of the BrowserScraper returns found
CrawlReturns(found) ==
  /\ pc \in { "http", "browser" }
  /\ LET used == IF pc = "http" THEN "axios" ELSE "puppeteer"
         crawled == [ingest EXCEPT
                       !.pages = found,
                       !.scraperUsed = used,
                       !.browserCrawls = IF pc = "browser" THEN @ + 1 ELSE @,
                       !.crawls = Append(@, [scraper |-> used,
                                             pages |-> found])]
     IN
     IF pc = "http" /\ fallsBack(ingest.entry, found)
     THEN ingest' = crawled /\ pc' = "browser"
     ELSE IF found # << >>
          THEN ingest' = crawled /\ pc' = "delete"
          ELSE /\ ingest' = [crawled EXCEPT !.result = failureResult]
               /\ pc' = "done"
  /\ UNCHANGED db
  /\ IngestUnchanged

\* await embeddingService.deleteWebsiteEmbeddings(url)
DeleteWebsiteEmbeddings(ok) ==
  /\ pc = "delete"
  /\ db' = IF ok THEN deletedRows(db, Site) ELSE db
  /\ IF ok \/ ingest.entry = "POST /api/ingest"
     THEN /\ ingest' = [ingest EXCEPT !.deleted = IF ok THEN "ok" ELSE "failed"]
          /\ pc' = "pages"
     ELSE /\ ingest' = [ingest EXCEPT !.deleted = "failed",
                                      !.result = failureResult]
          /\ pc' = "done"
  /\ IngestUnchanged

\* one turn of the loop over the pages; after the last page the run returns
ProcessPage(outcome, duplicate) ==
  /\ pc = "pages"
  /\ ingest.i <= Len(ingest.pages)
  /\ LET kind == IF ingest.pages[ingest.i] = "short" THEN "short"
                 ELSE IF ingest.entry = "POST /api/analyze" /\ duplicate
                      THEN "duplicate"
                      ELSE outcome
         stored == kind \in StoreOutcomes
         rows == IF stored THEN storedRows(kind, ingest.run, ingest.i) ELSE {}
         turned ==
           [ingest EXCEPT
              !.i = @ + 1,
              !.outcomes = Append(@, kind),
              !.inserted = @ \cup rows,
              !.processedPages = IF stored THEN processedAfter(@, kind) ELSE @,
              !.totalEmbeddings = IF stored THEN embeddingsAfter(@, kind) ELSE @,
              !.skippedDuplicates = IF kind = "duplicate" THEN @ + 1 ELSE @,
              !.errors = IF kind \in { "thrown", "thrownPartial" }
                         THEN Append(@, ingest.i) ELSE @]
     IN
     /\ db' = db \cup rows
     /\ IF ingest.i = Len(ingest.pages)
        THEN /\ ingest' = [turned EXCEPT !.result = successResult(turned)]
             /\ pc' = "done"
        ELSE /\ ingest' = turned
             /\ pc' = "pages"
  /\ IngestUnchanged

\* the next run of the same website starts after this one has ended
NextRun ==
  /\ pc = "done"
  /\ ingest.run + 1 \in Runs
  /\ ingest' = [NoIngest EXCEPT
                  !.run = ingest.run + 1,
                  !.previous = << [success |-> ingest.result.success,
                                   saved |-> ingest.inserted # {}] >>]
  /\ pc' = "start"
  /\ UNCHANGED db
  /\ IngestUnchanged

IngestNext ==
  \/ \E entry \in Entries, browser, valid, cachedHit \in BOOLEAN :
       StartRun(entry, browser, valid, cachedHit)
  \/ \E found \in IngestPageSeqs : CrawlReturns(found)
  \/ \E ok \in BOOLEAN : DeleteWebsiteEmbeddings(ok)
  \/ \E outcome \in StoreOutcomes, duplicate \in BOOLEAN :
       ProcessPage(outcome, duplicate)
  \/ NextRun

IngestSpec == IngestInit /\ [][IngestNext]_vars

(***************************************************************************)
(* ContentParser.parse (lib/services/contentParser.ts) and validateBoolean *)
(* (lib/utils/validation.ts), each called once.  A document is the         *)
(* sequence of its <p> elements; of an element the model keeps what the    *)
(* parser asks of it.                                                      *)
(***************************************************************************)
MaxParagraphs == 2      \* <p> elements of a document

\* junk: removed by removeJunkElements; length: of the trimmed text;
\* boilerplate: the text matches one of BOILERPLATE_PATTERNS
Paragraphs ==
  [junk : BOOLEAN, length : { 50, 51, 2000 }, likelyContent : BOOLEAN,
   boilerplate : BOOLEAN, fingerprint : { 1, 2 }]

Documents == UNION { [1..n -> Paragraphs] : n \in 0..MaxParagraphs }

removeJunkElements(doc) == SelectSeq(doc, LAMBDA p : ~p.junk)

isBoilerplate(p) == p.boilerplate

isLikelyContent(p) == p.likelyContent

\* the test of extractParagraphs on one <p>, the duplicate check apart
isMeaningful(p) ==
  /\ p.length > 50
  /\ p.length < 2000
  /\ isLikelyContent(p)
  /\ ~isBoilerplate(p)

\* the each() of extractParagraphs, kept being the paragraphs pushed so far
RECURSIVE extractFrom(_, _)
extractFrom(doc, kept) ==
  IF doc = << >> THEN kept
  ELSE extractFrom(Tail(doc),
                   IF /\ isMeaningful(Head(doc))
                      /\ \A k \in 1..Len(kept) :
                           kept[k].fingerprint # Head(doc).fingerprint
                   THEN Append(kept, Head(doc)) ELSE kept)

extractParagraphs(doc) == extractFrom(doc, << >>)

\* generateEnhancedMetadata: paragraphs.some((p) => this.isBoilerplate(p))
hasBoilerplate(paragraphs) ==
  \E k \in 1..Len(paragraphs) : isBoilerplate(paragraphs[k])

parse(html) ==
  LET paragraphs == extractParagraphs(removeJunkElements(html)) IN
  [paragraphs |-> paragraphs,
   metadata |-> [hasBoilerplate |-> hasBoilerplate(paragraphs)]]

\* a JavaScript value: its typeof (null apart) and the characters of its
\* literal
JsValue(type, value) == [type |-> type, value |-> value]

JsValues ==
  { JsValue("undefined", << >>), JsValue("null", << >>),
    JsValue("boolean", << "t", "r", "u", "e" >>),
    JsValue("boolean", << "f", "a", "l", "s", "e" >>),
    JsValue("number", << "0" >>), JsValue("number", << "1", "2", "3" >>),
    JsValue("string", << "t", "r", "u", "e" >>),
    JsValue("string", << "f", "a", "l", "s", "e" >>),
    JsValue("string", << "T", "R", "U", "E" >>),
    JsValue("string", << "i", "n", "v", "a", "l", "i", "d" >>),
    JsValue("string", << >>) }

\* String.prototype.toLowerCase on the letters the inputs use
lowerLetter(c) ==
  CASE c = "T" -> "t" [] c = "R" -> "r" [] c = "U" -> "u" [] c = "E" -> "e"
    [] OTHER -> c

lowerText(s) == [k \in 1..Len(s) |-> lowerLetter(s[k])]

validateBoolean(value, defaultValue) ==
  IF value.type \in { "undefined", "null" } THEN defaultValue
  ELSE IF value.type = "boolean" THEN value.value = << "t", "r", "u", "e" >>
  ELSE IF value.type = "string"
       THEN lowerText(value.value) = << "t", "r", "u", "e" >>
       ELSE defaultValue

FnCalls ==
  [fn : { "parse" }, html : Documents]
    \cup [fn : { "validateBoolean" }, value : JsValues, defaultValue : BOOLEAN]

FnInit ==
  /\ NoPipeline
  /\ pc = "call"
  /\ fingerprints = NoFingerprints
  /\ duplicateCount = 0
  /\ dedupHist = NoCall
  /\ ChunkerIdle
  /\ IngestIdle
  /\ ApiIdle
  /\ fnIn \in FnCalls
  /\ fnOut = << >>

FnUnchanged ==
  UNCHANGED << crawlVars, taskVars, embedVars, storeVars, useBrowser,
               dedupHist, chunkVars, ingestVars, fnIn, apiVars, rejectedLinks, moreVars >>

\* parser.parse(html, url)
Parse ==
  /\ pc = "call"
  /\ fnIn.fn = "parse"
  /\ fnOut' = parse(fnIn.html)
  /\ pc' = "returned"
  /\ FnUnchanged

\* validateBoolean(value, defaultValue)
ValidateBoolean ==
  /\ pc = "call"
  /\ fnIn.fn = "validateBoolean"
  /\ fnOut' = validateBoolean(fnIn.value, fnIn.defaultValue)
  /\ pc' = "returned"
  /\ FnUnchanged

FnNext ==
  \/ Parse
  \/ ValidateBoolean

FnSpec == FnInit /\ [][FnNext]_vars

(***************************************************************************)
(* APIRateLimiter and the middleware withRateLimit                         *)
(* (lib/middleware/rateLimiter.ts).  Time advances in ticks; the window    *)
(* has ApiWindowTicks of them.                                             *)
(***************************************************************************)
ApiMaxRequests == 2     \* maxRequests of the limiter
ApiWindowTicks == 2     \* windowMs, in ticks

\* the headers getIdentifier reads; "" is a header that is not set
ApiRequests ==
  [forwarded : { "", "a" }, realIp : { "", "b" }, cfConnectingIp : { "", "b" }]

\* NODE_ENV is not "development"
getIdentifier(request) ==
  IF request.forwarded # "" THEN request.forwarded
  ELSE IF request.realIp # "" THEN request.realIp
  ELSE IF request.cfConnectingIp # "" THEN request.cfConnectingIp
  ELSE "unknown-client"

Identifiers == { getIdentifier(r) : r \in ApiRequests }

\* now > entry.resetTime
entryExpired(entry) == entry.age > ApiWindowTicks

\* mutant: the limit is compared one request too late
overLimitOffByOne(count) == count > ApiMaxRequests + 1

\* entry.count > this.maxRequests
overLimit(count) == count > ApiMaxRequests

\* check(request): the map afterwards, and whether the request is limited
check(entries, identifier) ==
  IF identifier \notin DOMAIN entries \/ entryExpired(entries[identifier])
  THEN [limits |-> (identifier :> [count |-> 1, age |-> 0]) @@ entries,
        limited |-> FALSE]
  ELSE [limits |-> [entries EXCEPT ![identifier].count = @ + 1],
        limited |-> overLimit(entries[identifier].count + 1)]

\* cleanup(): the entries that are not expired
cleanedLimits(entries) ==
  LET live == { id \in DOMAIN entries : ~entryExpired(entries[id]) } IN
  [id \in live |-> entries[id]]

NoWindow == [age |-> 0, requests |-> 0, handled |-> 0, last |-> "none"]

ApiInit ==
  /\ NoPipeline
  /\ pc = "serving"
  /\ fingerprints = NoFingerprints
  /\ duplicateCount = 0
  /\ dedupHist = NoCall
  /\ ChunkerIdle
  /\ IngestIdle
  /\ FnIdle
  /\ limits = << >>
  /\ apiLog = [id \in Identifiers |-> NoWindow]

ApiUnchanged ==
  UNCHANGED << crawlVars, taskVars, embedVars, storeVars, useBrowser, pc,
               dedupHist, chunkVars, ingestVars, fnVars, rejectedLinks, moreVars >>

\* the wrapped route receives a request: 429 when check says so, the
\* handler otherwise
ApiRequest(request) ==
  LET id == getIdentifier(request)
      checked == check(limits, id)
      opens == apiLog[id].requests = 0 \/ apiLog[id].age > ApiWindowTicks
      window == IF opens THEN NoWindow ELSE apiLog[id]
  IN
  /\ pc = "serving"
  /\ window.requests < ApiMaxRequests + 2
  /\ limits' = checked.limits
  /\ apiLog' = [apiLog EXCEPT
                  ![id] = [age |-> window.age,
                           requests |-> window.requests + 1,
                           handled |-> IF checked.limited THEN window.handled
                                       ELSE window.handled + 1,
                           last |-> IF checked.limited THEN "429"
                                    ELSE "handled"]]
  /\ ApiUnchanged

\* setInterval(() => this.cleanup(), 60000)
ApiCleanup ==
  /\ pc = "serving"
  /\ limits' = cleanedLimits(limits)
  /\ UNCHANGED apiLog
  /\ ApiUnchanged

\* a tick of the clock
ApiTick ==
  /\ pc = "serving"
  /\ limits' = [id \in DOMAIN limits |->
                  [limits[id] EXCEPT !.age = Min2(@ + 1, ApiWindowTicks + 1)]]
  /\ apiLog' = [id \in Identifiers |->
                  IF apiLog[id].requests = 0 THEN apiLog[id]
                  ELSE [apiLog[id] EXCEPT
                          !.age = Min2(@ + 1, ApiWindowTicks + 1)]]
  /\ ApiUnchanged

ApiNext ==
  \/ \E request \in ApiRequests : ApiRequest(request)
  \/ ApiCleanup
  \/ ApiTick

ApiSpec == ApiInit /\ [][ApiNext]_vars


(***************************************************************************)
(* The job API: POST /api/jobs/start inserts the job_progress row and       *)
(* triggers analyzeWebsiteTask, whose updateProgress calls upsert the row;  *)
(* POST /api/jobs/cancel reads the row and then updates it.  The task and   *)
(* the cancel request are separate processes: their database calls          *)
(* interleave.                                                              *)
(***************************************************************************)
MaxJobPages == 2        \* pages.length of the job's crawl
MaxCancels == 2         \* cancel requests sent for the job, one after another

Finished == { "completed", "failed" }

\* supabase.from("job_progress").upsert({...}): a column whose value is
\* undefined is left out of the request and keeps what the row holds
upserted(row, status, progress, message, error) ==
  [exists |-> TRUE, status |-> status, progress |-> progress,
   message |-> message,
   error |-> IF error = "undefined" THEN row.error ELSE error]

\* .update({ status: "failed", ... }).eq("job_id", jobId)
canceledRow(row) ==
  [row EXCEPT !.status = "failed", !.message = "Job canceled by user",
              !.error = "Canceled"]

\* 50 + Math.floor((i / pages.length) * 40)
progressPercent(i, n) == 50 + ((i * 40) \div n)

JobInit ==
  /\ NoPipeline
  /\ pc = "start"
  /\ fingerprints = NoFingerprints
  /\ duplicateCount = 0
  /\ dedupHist = NoCall
  /\ ChunkerIdle
  /\ IngestIdle
  /\ FnIdle
  /\ ApiIdle

JobUnchanged ==
  UNCHANGED << crawlVars, taskVars, embedVars, storeVars, useBrowser,
               dedupHist, chunkVars, ingestVars, fnVars, apiVars,
               rejectedLinks, overlapVars >>

\* POST /api/jobs/start: insert the row, trigger the task
StartJob ==
  /\ pc = "start"
  /\ job' = [exists |-> TRUE, status |-> "queued", progress |-> 0,
             message |-> "queued", error |-> "none"]
  /\ pc' = "queued"
  /\ UNCHANGED << jobRun, cancel >>
  /\ JobUnchanged

\* one updateProgress call of the task's try block before the loop; the
\* crawl that precedes "parsing" returns n pages
TaskUpdate(from, to, status, progress, n) ==
  /\ pc \in from
  /\ job' = upserted(job, status, progress, to, "undefined")
  /\ jobRun' = [pages |-> n, i |-> 0]
  /\ pc' = to
  /\ UNCHANGED cancel
  /\ JobUnchanged

\* the top of the loop over the pages: updateProgress, then the page
TaskPage ==
  /\ pc = "embedding"
  /\ jobRun.i < jobRun.pages
  /\ job' = upserted(job, "embedding",
                     progressPercent(jobRun.i, jobRun.pages), "embedding",
                     "undefined")
  /\ jobRun' = [jobRun EXCEPT !.i = @ + 1]
  /\ UNCHANGED << pc, cancel >>
  /\ JobUnchanged

\* after the loop: status "completed"
TaskCompleted ==
  /\ pc = "embedding"
  /\ jobRun.i = jobRun.pages
  /\ job' = upserted(job, "completed", 100, "completed", "undefined")
  /\ pc' = "completed"
  /\ UNCHANGED << jobRun, cancel >>
  /\ JobUnchanged

\* a crawl throws or finds nothing, or deleteWebsiteEmbeddings throws: the
\* catch block writes status "failed"
TaskFails ==
  /\ \/ pc \in { "scraping", "scraping-fallback" }
     \/ pc = "embedding" /\ jobRun.i = 0
  /\ job' = upserted(job, "failed", 0, "failed", "thrown")
  /\ pc' = "failed"
  /\ UNCHANGED << jobRun, cancel >>
  /\ JobUnchanged

\* POST /api/jobs/cancel up to its answer or to the await of its update
CancelRead(hasJobId) ==
  /\ cancel.pc \in { "idle", "done" }
  /\ cancel.served < MaxCancels
  /\ LET answer(code) == [pc |-> "done", seen |-> job.status,
                          response |-> code, served |-> cancel.served + 1]
     IN cancel' =
          IF ~hasJobId THEN answer("VALIDATION_ERROR")
          ELSE IF ~job.exists THEN answer("JOB_NOT_FOUND")
          ELSE IF job.status \in Finished THEN answer("JOB_ALREADY_FINISHED")
          ELSE [cancel EXCEPT !.pc = "read", !.seen = job.status,
                              !.response = "none"]
  /\ UNCHANGED << pc, job, jobRun >>
  /\ JobUnchanged

\* the update of the cancel route resolves, with or without updateError
CancelWrite(ok) ==
  /\ cancel.pc = "read"
  /\ job' = IF ok THEN canceledRow(job) ELSE job
  /\ cancel' = [cancel EXCEPT !.pc = "done",
                              !.response = IF ok THEN "canceled"
                                           ELSE "INTERNAL_ERROR",
                              !.served = @ + 1]
  /\ UNCHANGED << pc, jobRun >>
  /\ JobUnchanged

JobNext ==
  \/ StartJob
  \/ TaskUpdate({ "queued" }, "initialization", "scraping", 5, 0)
  \/ TaskUpdate({ "initialization" }, "scraping", "scraping", 10, 0)
  \/ TaskUpdate({ "scraping" }, "scraping-fallback", "scraping", 20, 0)
  \/ \E n \in 1..MaxJobPages :
       TaskUpdate({ "scraping", "scraping-fallback" }, "parsing", "parsing",
                  40, n)
  \/ TaskUpdate({ "parsing" }, "embedding", "embedding", 50, jobRun.pages)
  \/ TaskPage
  \/ TaskCompleted
  \/ TaskFails
  \/ \E hasJobId \in BOOLEAN : CancelRead(hasJobId)
  \/ \E ok \in BOOLEAN : CancelWrite(ok)

JobSpec == JobInit /\ [][JobNext]_vars

(***************************************************************************)
(* The insert loop of storeEmbeddings for a page with many chunks: the      *)
(* embeddings of all n valuable chunks have been generated, the records     *)
(* are inserted maxBatchSize at a time.                                     *)
(***************************************************************************)
MaxRecords == 1001      \* records.length of the call

\* generateEmbeddingsBatch has resolved; records = valuableChunks.map(...)
RecordsBuilt(n) ==
  /\ pc = "idle"
  /\ chunksCreated' = n
  /\ chunkCount' = n
  /\ pc' = "inserting"
  /\ UNCHANGED << unitVars, crawlVars, taskVars, useBrowser, maxRequests,
                  requests, requestTimestamps, batchFrom, calls, insertFrom,
                  persisted, storeResult >>

InsertNext ==
  \/ \E n \in 1..MaxRecords : RecordsBuilt(n)
  \/ \E dbOk \in BOOLEAN : InsertRecords(dbOk)

InsertSpec == EmbedInit /\ [][InsertNext]_vars

(***************************************************************************)
(* Two runs of ingestWebsiteTask for the same website, triggered one after *)
(* the other and executed by separate workers: each run is sequential, the  *)
(* database calls of the two interleave.                                    *)
(***************************************************************************)
OverlapInit ==
  /\ NoPipeline
  /\ pc = "overlap"
  /\ fingerprints = NoFingerprints
  /\ duplicateCount = 0
  /\ dedupHist = NoCall
  /\ ChunkerIdle
  /\ FnIdle
  /\ ApiIdle
  /\ db = OtherRows
  /\ ingest = NoIngest

OverlapUnchanged ==
  UNCHANGED << crawlVars, taskVars, embedVars, storeVars, useBrowser, pc,
               dedupHist, chunkVars, ingest, fnVars, apiVars, rejectedLinks,
               jobVars >>

\* the task is triggered: run r starts its crawl
TriggerRun(r) ==
  /\ runs[r].pc = "none"
  /\ \A q \in 1..(r - 1) : runs[q].pc # "none"
  /\ runs' = [runs EXCEPT ![r].pc = "crawl"]
  /\ UNCHANGED db
  /\ OverlapUnchanged

\* the crawl (with its fallback) of run r returns n pages; none: the run
\* throws "No content found on the website"
RunCrawled(r, n) ==
  /\ runs[r].pc = "crawl"
  /\ runs' = [runs EXCEPT ![r].pc = IF n = 0 THEN "failed" ELSE "delete",
                          ![r].pages = n]
  /\ UNCHANGED db
  /\ OverlapUnchanged

\* await embeddingService.deleteWebsiteEmbeddings(payload.url) of run r
RunDeletes(r, ok) ==
  /\ runs[r].pc = "delete"
  /\ db' = IF ok THEN deletedRows(db, Site) ELSE db
  /\ runs' = [runs EXCEPT ![r].pc = IF ok THEN "pages" ELSE "failed"]
  /\ OverlapUnchanged

\* one storeEmbeddings call of the loop of run r; after the last page the
\* run returns
RunStores(r, outcome) ==
  /\ runs[r].pc = "pages"
  /\ LET page == runs[r].i + 1
         rows == storedRows(outcome, r, page)
     IN /\ db' = db \cup rows
        /\ runs' = [runs EXCEPT
                      ![r].i = page,
                      ![r].inserted = @ \cup rows,
                      ![r].pc = IF page = runs[r].pages THEN "done"
                                ELSE "pages"]
  /\ OverlapUnchanged

OverlapNext ==
  \E r \in Runs :
    \/ TriggerRun(r)
    \/ \E n \in 0..MaxIngestPages : RunCrawled(r, n)
    \/ \E ok \in BOOLEAN : RunDeletes(r, ok)
    \/ \E outcome \in StoreOutcomes : RunStores(r, outcome)

OverlapSpec == OverlapInit /\ [][OverlapNext]_vars

(***************************************************************************)
(* openAIRateLimiter under a steady load: every caller of withRateLimit     *)
(* calls it again after its call has settled (the limiter is shared by all  *)
(* the sessions of the process).                                            *)
(***************************************************************************)
\* withRateLimit(fn): await openAIRateLimiter.waitForSlot()
CallWithRateLimit(c) ==
  /\ calls[c].pc = "idle"
  /\ calls' = [calls EXCEPT
                 ![c] = enterCall(0, calls[c], requests, requestTimestamps)]
  /\ requests' = cleanupRequests(requests, requestTimestamps)
  /\ requestTimestamps' = cleanupTimestamps(requestTimestamps)
  /\ UNCHANGED << unitVars, storeVars, crawlVars, taskVars, useBrowser, pc,
                  maxRequests, chunkCount, batchFrom, insertFrom, persisted >>

\* fn() settles: finally { openAIRateLimiter.removeRequest(id) }
FunctionSettles(c) ==
  /\ calls[c].pc = "running"
  /\ requests' = removedRequests(requests, c)
  /\ requestTimestamps' = removedTimestamps(requestTimestamps, c)
  /\ calls' = [calls EXCEPT ![c] = idleCall]
  /\ UNCHANGED << unitVars, storeVars, crawlVars, taskVars, useBrowser, pc,
                  maxRequests, chunkCount, batchFrom, insertFrom, persisted >>

SlotNext ==
  \/ \E c \in Chunks : CallWithRateLimit(c)
  \/ \E c \in Chunks : WakeUp(c)
  \/ \E c \in Chunks : TrackAndCall(c)
  \/ \E c \in Chunks : FunctionSettles(c)
  \/ Tick

SlotSpec == EmbedInit /\ [][SlotNext]_vars

\* the event loop runs every timer that has fired and every continuation
\* that is ready, the clock advances, and every wrapped call settles
FairSlotSpec ==
  /\ SlotSpec
  /\ WF_vars(Tick)
  /\ \A c \in Chunks :
       /\ WF_vars(WakeUp(c))
       /\ WF_vars(TrackAndCall(c))
       /\ WF_vars(FunctionSettles(c))

(***************************************************************************)
(* Properties of the crawl and of the task                                 *)
(***************************************************************************)
Crawling == pc \in { "loop", "fetching" }

AcceptedUrls == { pages[k].url : k \in 1..Len(pages) }

\* C1: every crawl terminates (scrapeWebsite returns), the accepted-pages list
\* never holds more than maxPages pages, and no URL is handed to the transport
\* twice in one crawl.
C1_CrawlTerminatesBounded ==
  /\ [](Len(pages) <= maxPages /\ NoDuplicates(fetchLog))
  /\ (Crawling ~> pc = "crawled")

\* a crawl has returned after fetching as many URLs as the budget allows and
\* after scrapePage refused a further URL
C1_Witness ==
  /\ pc = "crawled"
  /\ Len(fetchLog) = maxPages
  /\ Len(deqLog) > Len(fetchLog)
  /\ Len(pages) >= 1

\* C2: in every state of a crawl, with either scraper, each accepted page has
\* qualityScore >= minQualityScore.
C2_QualityGate ==
  \A k \in 1..Len(pages) : pages[k].qualityScore >= minQualityScore

\* the browser crawl has accepted a page and rejected another for low quality
C2_Witness ==
  /\ scraper = "puppeteer"
  /\ pc = "crawled"
  /\ Len(pages) >= 1
  /\ skippedLowQuality >= 1

\* C3: every URL enqueued, fetched or accepted has the base hostname; a link
\* to another host is never enqueued.
C3_DomainScoping ==
  \A u \in SeqToSet(enqLog) \cup SeqToSet(fetchLog) \cup AcceptedUrls
           \cup SeqToSet(Pending(queue)) \cup inQueue \cup visited :
    u.host = baseHostname

\* an accepted page carried a link to a subdomain of the base host, and the
\* crawl went on to enqueue and fetch another URL
C3_Witness ==
  /\ \E u \in foundLinks : u.host # baseHostname
  /\ Len(enqLog) >= 2
  /\ Len(fetchLog) >= 2

\* C4 (as claimed): when scrapeWebsite returns fewer than maxPages accepted
\* pages, every URL that was enqueued during the crawl has been fetched.
C4_AllEnqueuedFetched ==
  (pc = "crawled" /\ Len(pages) < maxPages)
    => SeqToSet(enqLog) \subseteq SeqToSet(fetchLog)

\* C5: URLs leave the queue in exactly the order in which they were first
\* enqueued, none twice, and the queue holds exactly the URLs enqueued and not
\* yet dequeued, also after the compaction that follows the 101st dequeue.
C5_FifoOrder ==
  /\ Cardinality(SeqToSet(enqLog)) = Len(enqLog)
  /\ Len(deqLog) <= Len(enqLog)
  /\ deqLog = SubSeq(enqLog, 1, Len(deqLog))
  /\ Pending(queue) = SubSeq(enqLog, Len(deqLog) + 1, Len(enqLog))

\* the queue has been compacted and a URL was dequeued after that
C5_Witness ==
  /\ Len(deqLog) >= CompactAfter + 2
  /\ Len(queue.items) < Len(enqLog)
  /\ queue.head >= 1

\* C6: a failed fetch does not abort the crawl: the step that handles it keeps
\* the loop going and leaves the accepted pages, the frontier and inQueue as
\* they were (as a page without links would), the failed URL stays visited and
\* is not fetched again, and a crawl that returns short of maxPages has
\* dequeued every URL of the frontier.
C6_FailureSkipped ==
  /\ [][ (pc = "fetching" /\ lastOutcome' = "failed")
           => /\ pc' = "loop"
              /\ pages' = pages
              /\ queue' = queue
              /\ inQueue' = inQueue
              /\ cur \in visited' ]_vars
  /\ [](NoDuplicates(fetchLog))
  /\ []((pc = "crawled" /\ Len(pages) < maxPages) => deqLog = enqLog)

\* a fetch has failed, and a URL dequeued after it was fetched and accepted
C6_Witness ==
  /\ \E k \in 1..Len(fetchLog) :
       /\ fetchLog[k] \notin AcceptedUrls
       /\ \E m \in (k + 1)..Len(fetchLog) : fetchLog[m] \in AcceptedUrls
  /\ skippedLowQuality = 0

pageFingerprint(page) == createFingerprint(page.url, page.title, page.content)

C8_InFlightWithinLimit ==
  Cardinality({ c \in Chunks : calls[c].pc = "running" }) <= maxRequests

\* C9: one generateEmbedding call reaches the embed capability at most
\* maxRetries + 1 times; its retryCount grows only out of the backoff that
\* follows a retryable error, one step at a time, and every attempt after
\* the first belongs to such a retry; an error that is not retryable leaves
\* the call failed, and a failed call makes no further attempt.
C9_BoundedRetries ==
  /\ [](\A c \in Chunks :
          /\ calls[c].attempts <= maxRetries + 1
          /\ calls[c].attempts <= calls[c].retryCount + 1
          /\ calls[c].pc = "backoff" => isRetryableError(calls[c].lastError)
          /\ (calls[c].lastError # NoError
                 /\ ~isRetryableError(calls[c].lastError))
               => calls[c].pc = "failed")
  /\ [][\A c \in Chunks :
          /\ calls'[c].retryCount # calls[c].retryCount
               => /\ calls[c].pc = "backoff"
                  /\ isRetryableError(calls[c].lastError)
                  /\ calls'[c].retryCount = calls[c].retryCount + 1
          /\ calls[c].pc = "failed" => calls'[c] = calls[c]]_vars

\* one call has failed on a non-retryable error after a single attempt,
\* another has used up its retries
C9_Witness ==
  \E c, d \in Chunks :
    /\ calls[c].pc = "failed"
    /\ calls[c].attempts = 1
    /\ calls[c].lastError # NoError
    /\ ~isRetryableError(calls[c].lastError)
    /\ calls[d].pc = "failed"
    /\ calls[d].attempts = maxRetries + 1
    /\ isRetryableError(calls[d].lastError)

\* C10: once the embedding of a chunk of the page has failed for good,
\* storeEmbeddings has thrown and no row of this call is persisted, whatever
\* became of the other chunks.
C10_NoPartialPersistence ==
  (\E c \in 1..chunkCount : calls[c].pc = "failed")
    => (pc = "thrown" /\ persisted = {})

\* storeEmbeddings has thrown on a chunk whose embedding failed while a
\* sibling chunk was embedded successfully
C10_Witness ==
  /\ pc = "thrown"
  /\ \E c, d \in 1..chunkCount :
       /\ calls[c].pc = "failed"
       /\ calls[c].attempts >= 1
       /\ calls[d].pc = "ok"

\* C11: when the chunking pipeline of storeEmbeddings leaves no chunk, the
\* call has returned chunksSaved = 0 and chunksSkipped = chunksCreated, no
\* generateEmbedding call was made (so none reached the embed capability),
\* and no insert was made.
C11_NothingToEmbed ==
  (pc \notin { "idle", "refused" } /\ chunkCount = 0)
    => /\ pc = "stored"
       /\ storeResult = [status |-> "returned",
                         chunksCreated |-> chunksCreated,
                         chunksSaved |-> 0,
                         chunksSkipped |-> chunksCreated]
       /\ \A c \in Chunks : calls[c] = idleCall
       /\ requests = {} /\ requestTimestamps = << >>
       /\ persisted = {} /\ insertFrom = 1

\* a page was chunked and every chunk was removed by the pipeline
C11_Witness ==
  /\ pc = "stored"
  /\ chunkCount = 0
  /\ chunksCreated = MaxChunks
  /\ storeResult.chunksSkipped = MaxChunks

\* a step that is one isDuplicate call
DedupCall == dedupHist'.calls = dedupHist.calls + 1

\* C12: a call for urlB whose title and content equal those stored for
\* another URL, or differ from them only in letter case or in whitespace
\* runs, returns true.
C12_ExactMatchIsDuplicate ==
  [][ (/\ DedupCall
       /\ \E urlA \in DOMAIN fingerprints :
            /\ urlA # dedupHist'.url
            /\ dedupHist'.title \in textVariants(dedupHist.source[urlA].title)
            /\ dedupHist'.content
                 \in textVariants(dedupHist.source[urlA].content))
      => dedupHist'.returned ]_vars

\* a call returned true for a text that differs in case and whitespace from
\* the text stored under another URL
C12_Witness ==
  /\ dedupHist.last = "call"
  /\ dedupHist.returned
  /\ \E urlA \in DOMAIN fingerprints :
       /\ urlA # dedupHist.url
       /\ dedupHist.content # dedupHist.source[urlA].content
       /\ dedupHist.content \in textVariants(dedupHist.source[urlA].content)
       /\ dedupHist.title \in textVariants(dedupHist.source[urlA].title)

\* C13: a call for a URL whose stored fingerprint was made from the same
\* title and content returns false.
C13_NeverDuplicateOfItself ==
  [][ (/\ DedupCall
       /\ dedupHist'.url \in DOMAIN fingerprints
       /\ dedupHist.source[dedupHist'.url] =
            [title |-> dedupHist'.title, content |-> dedupHist'.content])
      => ~dedupHist'.returned ]_vars

\* a page was submitted again under its URL while the fingerprint of
\* another URL was stored too
C13_Witness ==
  /\ dedupHist.last = "call"
  /\ ~dedupHist.returned
  /\ dedupHist.resubmitted
  /\ Cardinality(DOMAIN fingerprints) >= 2

\* C14: a call returns true when a fingerprint stored under another URL has
\* the same normalized title and a content length less than 100 away, though
\* the contents differ.
C14_SameTitleSimilarLength ==
  [][ (/\ DedupCall
       /\ \E urlA \in DOMAIN fingerprints :
            /\ urlA # dedupHist'.url
            /\ createHash(dedupHist'.title) = fingerprints[urlA].titleHash
            /\ createHash(dedupHist'.content) # fingerprints[urlA].contentHash
            /\ Abs(StrLen(dedupHist'.content) - fingerprints[urlA].length)
                 < lengthThreshold)
      => dedupHist'.returned ]_vars

\* a call returned true though no fingerprint stored under another URL has
\* its content hash
C14_Witness ==
  /\ dedupHist.last = "call"
  /\ dedupHist.returned
  /\ \A urlA \in DOMAIN fingerprints \ { dedupHist.url } :
       createHash(dedupHist.content) # fingerprints[urlA].contentHash

\* C15: a call returns false when no fingerprint stored under another URL
\* has the same content hash, or the same title hash with a content length
\* less than 100 away.
C15_NoNearDuplicates ==
  [][ (/\ DedupCall
       /\ \A urlA \in DOMAIN fingerprints \ { dedupHist'.url } :
            /\ createHash(dedupHist'.content) # fingerprints[urlA].contentHash
            /\ \/ createHash(dedupHist'.title) # fingerprints[urlA].titleHash
               \/ Abs(StrLen(dedupHist'.content) - fingerprints[urlA].length)
                    >= lengthThreshold)
      => ~dedupHist'.returned ]_vars

\* a call returned false though the content stored under another URL has at
\* least 0.95 of its length (or it of the other)
C15_Witness ==
  /\ dedupHist.last = "call"
  /\ ~dedupHist.returned
  /\ \E urlA \in DOMAIN fingerprints \ { dedupHist.url } :
       100 * Min2(StrLen(dedupHist.content), fingerprints[urlA].length)
         >= similarityThreshold
              * Max2(StrLen(dedupHist.content), fingerprints[urlA].length)

\* C16 (as claimed): the fingerprint first stored for a URL stays in the map
\* unchanged until reset().
C16_FirstSeenRetained ==
  \A url \in DOMAIN dedupHist.firstSeen :
    /\ url \in DOMAIN fingerprints
    /\ fingerprints[url] = dedupHist.firstSeen[url]

\* C17: duplicatesFound is the number of calls that returned true and
\* uniquePages the number of URLs for which a call returned false, counted
\* from construction or the last reset().
C17_StatsCountCalls ==
  /\ getStats(fingerprints, duplicateCount).duplicatesFound
       = dedupHist.trueCalls
  /\ getStats(fingerprints, duplicateCount).uniquePages
       = Cardinality(dedupHist.falseUrls)

\* two pages were stored and a third call returned true
C17_Witness ==
  /\ dedupHist.trueCalls = 1
  /\ Cardinality(dedupHist.falseUrls) = 2
  /\ getStats(fingerprints, duplicateCount).duplicateRate = 33

\* C18: after reset() the service is as constructed: no fingerprint, no
\* duplicate counted, no input reported as a duplicate; the call that
\* follows a reset() returns false.
C18_ResetIsFresh ==
  /\ [](dedupHist.last = "reset"
          => /\ fingerprints = NoFingerprints
             /\ duplicateCount = 0
             /\ getStats(fingerprints, duplicateCount).uniquePages = 0
             /\ getStats(fingerprints, duplicateCount).duplicatesFound = 0
             /\ \A url \in DedupUrls, title \in DedupTitles,
                   content \in DedupContents :
                  ~isDuplicate(fingerprints, url, title, content))
  /\ [][ (DedupCall /\ dedupHist.last = "reset")
           => ~dedupHist'.returned ]_vars

\* a text stored before reset() was submitted after it under another URL,
\* and was not reported
C18_Witness ==
  /\ dedupHist.last = "call"
  /\ dedupHist.afterReset
  /\ ~dedupHist.returned
  /\ \E seen \in dedupHist.seenBeforeReset :
       /\ seen.title = dedupHist.title
       /\ seen.content = dedupHist.content

\* the number of times character c occurs in text s
RECURSIVE countChar(_, _)
countChar(s, c) ==
  IF s = << >> THEN 0
  ELSE (IF Head(s) = c THEN 1 ELSE 0) + countChar(Tail(s), c)

RECURSIVE countInChunks(_, _)
countInChunks(chunks, c) ==
  IF chunks = << >> THEN 0
  ELSE countChar(Head(chunks), c) + countInChunks(Tail(chunks), c)

\* C19 (as claimed): every chunk returned by chunkTextSmartly has at most
\* chunkSize characters.
C19_ChunksWithinSize ==
  (pc = "chunked" /\ chunkerIn.chunkOverlap < chunkerIn.chunkSize)
    => \A k \in 1..Len(chunkerOut) : Len(chunkerOut[k]) <= chunkerIn.chunkSize

\* C20 (as claimed): the chunks cover the text without gaps; then every
\* character that is not whitespace occurs in the chunks at least as often
\* as in the text.
C20_NoGaps ==
  pc = "chunked"
    => \A c \in TextChars :
         isSpace(c) \/ chunkerIn.chunkOverlap >= chunkerIn.chunkSize
           \/ countInChunks(chunkerOut, c) >= countChar(chunkerIn.text, c)

\* C21 (as claimed): "A" repeated 50 times, chunked with chunkSize = 20 and
\* chunkOverlap = 5 by the chunker of the EmbeddingService, gives exactly
\* four chunks of at most 20 characters each.
C21_HardSplitExample ==
  ( /\ pc \in { "chunked", "split" }
    /\ chunkerIn = [text |-> repeat("A", 50), chunkSize |-> 20,
                    chunkOverlap |-> 5] )
    => /\ Len(chunkerOut) = 4
       /\ \A k \in 1..Len(chunkerOut) : Len(chunkerOut[k]) <= 20

\* C22 (as claimed): no chunking operation runs with chunkOverlap >= chunkSize,
\* because loading such a configuration fails.
C22_OverlapBelowSize ==
  pc \in { "chunked", "split", "hung" }
    => chunkerIn.chunkOverlap < chunkerIn.chunkSize

\* C23: a request id is tracked only while the wrapped call of its
\* withRateLimit is executing; when no wrapped call is executing, the limiter
\* tracks nothing.
C23_TrackedOnlyWhileRunning ==
  /\ \A id \in requests : calls[id].pc = "running"
  /\ (\A c \in Chunks : calls[c].pc # "running")
       => requests = {} /\ requestTimestamps = << >>

\* wrapped calls have returned and thrown, none is executing, nothing is tracked
C23_Witness ==
  /\ \E c \in Chunks : calls[c].pc = "ok"
  /\ \E c \in Chunks : calls[c].pc \in { "backoff", "failed" }
  /\ \A c \in Chunks : calls[c].pc # "running"
  /\ requests = {}

\* the pages of the run whose storeEmbeddings call returned
succeededPages ==
  { k \in 1..Len(ingest.outcomes) : ingest.outcomes[k] \in { "saved", "empty" } }

C25_NoStoreAfterFailedDelete ==
  ingest.deleted = "failed"
    => \A k \in 1..Len(ingest.outcomes) : ingest.outcomes[k] \notin StoreOutcomes

\* C26: a run of the ingest-website task that got past the delete goes
\* through all its pages whatever storeEmbeddings throws, and ends with
\* success = true and pagesProcessed = the number of pages whose
\* storeEmbeddings call returned, at most pagesScraped.
C26_PartialSuccess ==
  ( /\ pc = "done"
    /\ ingest.entry = "ingest-website"
    /\ ingest.deleted = "ok" )
    => /\ Len(ingest.outcomes) = Len(ingest.pages)
       /\ ingest.result.success
       /\ ingest.result.pagesScraped = Len(ingest.pages)
       /\ ingest.result.pagesProcessed = Cardinality(succeededPages)
       /\ ingest.result.pagesProcessed <= ingest.result.pagesScraped

\* the first page's storeEmbeddings threw, a later page was still stored
C26_Witness ==
  /\ pc = "done"
  /\ ingest.entry = "ingest-website"
  /\ Len(ingest.outcomes) >= 2
  /\ ingest.outcomes[1] \in { "thrown", "thrownPartial" }
  /\ ingest.outcomes[Len(ingest.outcomes)] = "saved"
  /\ ingest.result.success
  /\ ingest.result.pagesProcessed < ingest.result.pagesScraped

\* C27 (as claimed): parse sets metadata.hasBoilerplate when the document has
\* a <p> element (one that removeJunkElements leaves in place) whose text
\* matches a boilerplate pattern.
C27_BoilerplateDetected ==
  ( /\ pc = "returned"
    /\ fnIn.fn = "parse"
    /\ \E k \in 1..Len(fnIn.html) :
         ~fnIn.html[k].junk /\ fnIn.html[k].boilerplate )
    => fnOut.metadata.hasBoilerplate

\* C28 (as claimed): validateBoolean returns defaultValue for every value that
\* is neither a boolean nor the string "true" or "false".
C28_DefaultForInvalid ==
  ( /\ pc = "returned"
    /\ fnIn.fn = "validateBoolean"
    /\ fnIn.value.type # "boolean"
    /\ fnIn.value \notin { JsValue("string", << "t", "r", "u", "e" >>),
                           JsValue("string", << "f", "a", "l", "s", "e" >>) } )
    => fnOut = fnIn.defaultValue

\* C29: of the requests one identifier has made since the first request of
\* its window, at most maxRequests reached the handler, and once more than
\* maxRequests were made the last one was answered with 429.
C29_AtMostMaxPerWindow ==
  \A id \in Identifiers :
    /\ apiLog[id].handled <= ApiMaxRequests
    /\ apiLog[id].requests > ApiMaxRequests
         => apiLog[id].handled = ApiMaxRequests /\ apiLog[id].last = "429"
    /\ apiLog[id].requests <= ApiMaxRequests
         => apiLog[id].handled = apiLog[id].requests

\* a client was refused within its window, and served again in the next one
C29_Witness ==
  \E id, other \in Identifiers :
    /\ apiLog[id].requests > ApiMaxRequests
    /\ apiLog[id].last = "429"
    /\ apiLog[id].handled = ApiMaxRequests
    /\ other # id
    /\ apiLog[other].last = "handled"
    /\ other \in DOMAIN limits
    /\ limits[other].count = 1
    /\ limits[other].age < apiLog[id].age

\* C30 (as claimed): during a crawl inQueue contains every URL in the queue,
\* visited contains every URL fetched, and no URL other than the one being
\* fetched is in both sets.
C30_DisjointButInFlight ==
  Crawling
    => /\ SeqToSet(Pending(queue)) \subseteq inQueue
       /\ SeqToSet(fetchLog) \subseteq visited
       /\ (inQueue \cap visited)
            \subseteq (IF pc = "fetching" THEN { cur } ELSE {})

\* C30 (amended): during a crawl inQueue contains every URL in the queue and
\* visited contains every URL fetched; inQueue never gives a URL up, so
\* every visited URL stays in inQueue.
C30_VisitedStaysInQueue ==
  Crawling
    => /\ SeqToSet(Pending(queue)) \subseteq inQueue
       /\ SeqToSet(fetchLog) \subseteq visited
       /\ visited \subseteq inQueue

\* a second URL is being fetched while the first one is in both sets and a
\* third one waits in the queue
C30_Witness ==
  /\ pc = "fetching"
  /\ \E u \in visited : u # cur /\ u \in inQueue
  /\ Pending(queue) # << >>
  /\ SeqToSet(Pending(queue)) \subseteq inQueue

\* C31: in every state of a crawl, with either scraper, every URL ever put in
\* the frontier other than the base URL was read on a page that was accepted:
\* the links of a page below the quality threshold, and a page whose fetch
\* failed, add nothing to the queue.
C31_FrontierFromAcceptedPages ==
  \A u \in SeqToSet(enqLog) \cup SeqToSet(Pending(queue)) \cup inQueue :
    u = baseUrl \/ u \in foundLinks

\* a page below the threshold carried a link that no accepted page has shown,
\* a fetch has failed as well, and the crawl went on
C31_Witness ==
  /\ rejectedLinks \ foundLinks # {}
  /\ skippedLowQuality >= 1
  /\ Len(fetchLog) > Len(pages) + skippedLowQuality
  /\ Len(pages) >= 1

\* the URL names the base URL's document and carries a fragment: base#section
isFragmentOfBase(u) == u.frag # "" /\ splitHash(Href(u)) = Href(baseUrl)

\* C32 (as claimed): in a WebScraper crawl no URL that is the base URL followed
\* only by a fragment is ever enqueued or fetched.
C32_FragmentOfBaseSkipped ==
  scraper = "axios"
    => \A u \in SeqToSet(enqLog) \cup SeqToSet(fetchLog) : ~isFragmentOfBase(u)

\* the browser crawl of the run in progress has been started
browserStarted ==
  pc = "browser" \/ \E k \in 1..Len(ingest.crawls) :
                      ingest.crawls[k].scraper = "puppeteer"

\* the HTTP crawl of the run in progress has returned no page
httpFoundNothing ==
  /\ ingest.crawls # << >>
  /\ ingest.crawls[1].scraper = "axios"
  /\ ingest.crawls[1].pages = << >>

\* C33: in a run of the ingest-website task without useBrowser, the browser
\* crawl has been started exactly when the HTTP crawl has returned zero pages,
\* it is started at most once, and the pages of the run are those of the last
\* crawl, every crawl before it having returned none.
C33_FallbackOnlyWhenHttpEmpty ==
  (ingest.entry = "ingest-website" /\ ~ingest.useBrowser /\ pc # "start")
    => /\ browserStarted <=> httpFoundNothing
       /\ ingest.browserCrawls <= 1
       /\ pc = "browser" => ingest.browserCrawls = 0
       /\ Len(ingest.crawls) <= 2
       /\ pc \in { "delete", "pages", "done" }
            => /\ ingest.pages = ingest.crawls[Len(ingest.crawls)].pages
               /\ \A k \in 1..(Len(ingest.crawls) - 1) :
                    ingest.crawls[k].pages = << >>

\* the HTTP crawl found nothing, the browser crawl found pages, and they were
\* embedded
C33_Witness ==
  /\ ingest.entry = "ingest-website" /\ ~ingest.useBrowser
  /\ pc = "done"
  /\ httpFoundNothing
  /\ ingest.browserCrawls = 1
  /\ ingest.scraperUsed = "puppeteer"
  /\ ingest.processedPages >= 1

\* C34: when chunkText has run with 0 <= chunkOverlap < chunkSize, every
\* sentence it split by character offsets was longer than chunkSize, and the
\* loop over it ran exactly ceil(L / (chunkSize - chunkOverlap)) times, from
\* offset 0 and advancing by chunkSize - chunkOverlap > 0 each time.
C34_HardSplitSteps ==
  ( /\ pc \in { "split", "hung" }
    /\ 0 <= chunkerIn.chunkOverlap
    /\ chunkerIn.chunkOverlap < chunkerIn.chunkSize )
    => /\ pc = "split"
       /\ \A k \in 1..Len(hardSplits) :
            LET L == hardSplits[k].length
                offsets == hardSplits[k].offsets
                step == chunkerIn.chunkSize - chunkerIn.chunkOverlap
            IN /\ L > chunkerIn.chunkSize
               /\ step > 0
               /\ Len(offsets) = ceilDiv(L, step)
               /\ offsets[1] = 0
               /\ \A j \in 1..(Len(offsets) - 1) :
                    offsets[j + 1] = offsets[j] + step

\* a sentence of 50 characters was split with chunkSize 20 and chunkOverlap 5,
\* in four steps
C34_Witness ==
  /\ pc = "split"
  /\ chunkerIn.chunkSize = 20 /\ chunkerIn.chunkOverlap = 5
  /\ Len(hardSplits) = 1
  /\ hardSplits[1].length = 50
  /\ hardSplits[1].offsets = << 0, 15, 30, 45 >>

\* C35 (as claimed): a cancel request for the job that is answered while the
\* job's row is completed or failed, its database calls having succeeded,
\* answers JOB_ALREADY_FINISHED (400) and leaves the row as it is.
C35_FinishedJobNotCanceled ==
  [][ ( /\ job.status \in Finished
        /\ cancel'.served = cancel.served + 1
        /\ cancel'.response \notin { "VALIDATION_ERROR", "INTERNAL_ERROR" } )
      => ( job' = job /\ cancel'.response = "JOB_ALREADY_FINISHED" ) ]_vars

\* C36: in every state of a DeduplicationService, two fingerprints stored
\* under different URLs have different content hashes, and they have
\* different title hashes or content lengths at least 100 apart.
C36_StoredPairwiseDistinct ==
  \A urlA, urlB \in DOMAIN fingerprints :
    urlA # urlB
      => /\ fingerprints[urlA].contentHash # fingerprints[urlB].contentHash
         /\ \/ fingerprints[urlA].titleHash # fingerprints[urlB].titleHash
            \/ Abs(fingerprints[urlA].length - fingerprints[urlB].length)
                 >= lengthThreshold

\* two URLs hold fingerprints with the same title hash and lengths exactly
\* 100 apart, one of them stored over an earlier fingerprint of its URL
C36_Witness ==
  /\ dedupHist.last = "call"
  /\ ~dedupHist.returned
  /\ Cardinality(DOMAIN fingerprints) = 2
  /\ \E urlA, urlB \in DOMAIN fingerprints :
       /\ urlA # urlB
       /\ fingerprints[urlA].titleHash = fingerprints[urlB].titleHash
       /\ Abs(fingerprints[urlA].length - fingerprints[urlB].length)
            = lengthThreshold
       /\ fingerprints[urlA] # dedupHist.firstSeen[urlA]

\* C37 (as claimed): in a run of the analyze-website task, every page that
\* was skipped as a duplicate duplicates an earlier page of the run that was
\* handed to storeEmbeddings and whose storeEmbeddings call did not throw.
C37_DuplicateOfStoredPage ==
  pc \in { "embedding", "completed" }
    => \A i \in 1..(pageIndex - 1) :
         (~tooShort(pages[i]) /\ ~InSeq(i, storeLog))
           => \E j \in 1..(i - 1) :
                /\ InSeq(j, storeLog)
                /\ ~InSeq(pages[j].url, errors)
                /\ matches(pageFingerprint(pages[i]), pageFingerprint(pages[j]))

\* C38 (as claimed): when storeEmbeddings has thrown, no record of the call
\* is persisted, also when the insert of a later batch failed after an
\* earlier batch of maxBatchSize records went in.
C38_NothingPersistedAfterThrow ==
  pc = "thrown" => persisted = {}

\* C39 (as claimed): when the two runs of the website have finished, the
\* rows persisted for the website are exactly the rows one of the two runs
\* inserted.
C39_RowsOfOneRun ==
  (\A r \in Runs : runs[r].pc \in { "done", "failed" })
    => \E r \in Runs : websiteRows(db, Site) = runs[r].inserted

\* C40 (as claimed): a caller sleeping in waitForSlot eventually gets its
\* slot and runs its wrapped function.
C40_WaiterEventuallyRuns ==
  \A c \in Chunks : (calls[c].pc = "sleeping") ~> (calls[c].pc = "running")

====
